---- MODULE Spec2Model ----
(***************************************************************************)
(* Model of dk::static_vector<T, N, SizeType> (src/dk_static_vector.hpp), *)
(* of dk::flat_map (src/dk_flat_map.hpp) and of the dk_pcg32 generator     *)
(* (src/dk_pcg32.h).                                                       *)
(*                                                                         *)
(* Two instances, "a" and "b", of the same capacity N.  An instance is its *)
(* raw buffer m_buffer (one cell per slot) and its counter m_size.  A cell *)
(* holds NoObj (raw storage: never constructed, or destroyed), MovedFrom   *)
(* (a constructed object whose value has been moved out of) or the value   *)
(* of a constructed object.  T is taken as a type with a non-trivial       *)
(* destructor and a move that leaves the source valid but unspecified.     *)
(*                                                                         *)
(* DK_ASSERT is modelled as in a build with assertions on (lines 28-40:    *)
(* assert / __debugbreak): a failed assertion stops the program before the *)
(* statement that follows it.                                              *)
(*                                                                         *)
(* A flat_map is its backing array m_container, a sequence of key/value    *)
(* pairs, with iterators as indices.  The generator is its 64-bit state;   *)
(* machine words are sequences of bytes and their arithmetic is modulo     *)
(* 2^32 or 2^64 as in the code.                                            *)
(***************************************************************************)
EXTENDS Integers, Sequences, FiniteSets, TLC

\* ---------------------------------------------------------------- bounds
N == 3
MaxVal == 1
MaxKey == 2
MaxDraws == 3

\* ------------------------------------------------------------ cell values
NoObj == -2
MovedFrom == -1
DefaultValue == 0

Values == 0..MaxVal
Cell == {NoObj, MovedFrom} \cup Values
Slots == 0..(N - 1)
Inst == {"a", "b"}
Counts == 0..(N + 1)

\* hist is a history variable: the calls of a client scenario, kept from the
\* first call whose name is in hist.start.
\* fmap holds the dk::flat_map instances (src/dk_flat_map.hpp), pcg the
\* dk_pcg32 generator (src/dk_pcg32.h).
VARIABLES vec, op, ret, status, hist, fmap, pcg

vars == <<vec, op, ret, status, hist, fmap, pcg>>

\* The value an operation reports when it returns nothing.
NoRet == -9

\* An argument of element type: a value of the caller's, or a reference to
\* slot x of the container the operation is called on.
ValArg(v) == [ref |-> FALSE, x |-> v]
RefArg(j) == [ref |-> TRUE, x |-> j]
NoArg == ValArg(NoObj)

Op(name, self, x, y, arg) ==
    [name |-> name, self |-> self, x |-> x, y |-> y, arg |-> arg]

\* ------------------------------------------------------- raw storage
m_buffer_init == [i \in Slots |-> NoObj]

\* An instance: alive is FALSE before construction and after destruction.
static_vector_default == [alive |-> TRUE, m_buffer |-> m_buffer_init, m_size |-> 0]

NoInstance == [alive |-> FALSE, m_buffer |-> m_buffer_init, m_size |-> 0]

\* The outcome of a member function: the instance afterwards, the value it
\* returns and how it ended ("ok", "assert", "out_of_range", "throw", "ub").
Out(v, r, e) == [v |-> v, ret |-> r, end |-> e]

size(v) == v.m_size

empty(v) == v.m_size = 0

\* placement new of a value into slot i
construct(buf, i, val) == [buf EXCEPT ![i] = val]

\* it->~value_type()
destroy(buf, i) == [buf EXCEPT ![i] = NoObj]

\* new (dst) value_type(std::move(src[j])): the value goes to dst[i], the
\* source object stays constructed, moved-from
moved_out(buf, j) == [buf EXCEPT ![j] = MovedFrom]

\* The live elements of an instance, in index order.
Elems(v) == [k \in 1..v.m_size |-> v.m_buffer[k - 1]]

\* ------------------------------------------------ emplace_back / push_back
\* emplace_back with the capacity assertion off by one.
emplace_back_off_by_one(v, val) ==
    IF ~(size(v) <= N) THEN Out(v, NoRet, "assert")
    ELSE LET base == v.m_size
             grown == [v EXCEPT !.m_size = base + 1]
         IN  Out([grown EXCEPT !.m_buffer = construct(v.m_buffer, base, val)],
                 val, "ok")

\* new (base + m_size++) value_type(args...): the counter is incremented
\* when the placement address is computed, before the constructor runs.
emplace_back(v, val) ==
    IF ~(size(v) < N) THEN Out(v, NoRet, "assert")
    ELSE LET base == v.m_size
             grown == [v EXCEPT !.m_size = base + 1]
         IN  Out([grown EXCEPT !.m_buffer = construct(v.m_buffer, base, val)],
                 val, "ok")

push_back(v, val) ==
    IF ~(size(v) < N) THEN Out(v, NoRet, "assert")
    ELSE emplace_back(v, val)

\* emplace_back when value_type(args...) throws: m_size++ has been done for
\* the placement address, the slot gets no object and nothing takes the
\* increment back.
emplace_back_throws(v) ==
    IF ~(size(v) < N) THEN Out(v, NoRet, "assert")
    ELSE Out([v EXCEPT !.m_size = v.m_size + 1], NoRet, "throw")

push_back_throws(v) ==
    IF ~(size(v) < N) THEN Out(v, NoRet, "assert")
    ELSE emplace_back_throws(v)

\* pop_back that destroys the last element and keeps m_size.
pop_back_keeps_size(v) ==
    IF empty(v) THEN Out(v, NoRet, "assert")
    ELSE Out([v EXCEPT !.m_buffer = destroy(v.m_buffer, size(v) - 1)],
             NoRet, "ok")

pop_back(v) ==
    IF empty(v) THEN Out(v, NoRet, "assert")
    ELSE LET new_size == size(v) - 1
         IN  Out([v EXCEPT !.m_buffer = destroy(v.m_buffer, new_size),
                           !.m_size = new_size], NoRet, "ok")

\* ------------------------------------------------- destruct_and_downsize
RECURSIVE destroy_range(_, _, _)
destroy_range(buf, it, end) ==
    IF it >= end THEN buf
    ELSE destroy_range(destroy(buf, it), it + 1, end)

destruct_and_downsize(v, idx) ==
    IF ~(idx <= size(v)) THEN Out(v, NoRet, "assert")
    ELSE Out([v EXCEPT !.m_buffer = destroy_range(v.m_buffer, idx, size(v)),
                       !.m_size = idx], NoRet, "ok")

\* clear that keeps the first element.
clear_keeps_first(v) == destruct_and_downsize(v, IF empty(v) THEN 0 ELSE 1)

clear(v) == destruct_and_downsize(v, 0)

\* ------------------------------------------------------------------ resize
\* for (i = first; i < count; ++i) new (base + i) value_type(val).  The
\* buffer has N slots: a write at base + i with i >= N lands outside it and
\* is not a write to any slot.
RECURSIVE construct_range(_, _, _, _)
construct_range(buf, i, count, val) ==
    IF ~(i < count) THEN buf
    ELSE construct_range(IF i < N THEN construct(buf, i, val) ELSE buf,
                         i + 1, count, val)

\* How a loop that constructs slots [.., count) ends: past the buffer it has
\* undefined behaviour.
WriteEnd(count) == IF count > N THEN "ub" ELSE "ok"

\* resize_value that grows by one element only.
resize_value_one_step(v, count, val) ==
    IF count <= size(v) THEN destruct_and_downsize(v, count)
    ELSE Out([v EXCEPT !.m_buffer = construct_range(v.m_buffer, size(v), size(v) + 1, val),
                       !.m_size = count], NoRet, WriteEnd(count))

resize_value(v, count, val) ==
    IF count <= size(v) THEN destruct_and_downsize(v, count)
    ELSE Out([v EXCEPT !.m_buffer = construct_range(v.m_buffer, size(v), count, val),
                       !.m_size = count], NoRet, WriteEnd(count))

resize(v, count) == resize_value(v, count, DefaultValue)

\* ---------------------------------------------------------- element access
\* at with the bound test off by one.
at_off_by_one(v, idx) ==
    IF idx > v.m_size THEN Out(v, NoRet, "out_of_range")
    ELSE Out(v, v.m_buffer[idx], "ok")

at(v, idx) ==
    IF idx >= v.m_size THEN Out(v, NoRet, "out_of_range")
    ELSE Out(v, v.m_buffer[idx], "ok")

subscript(v, idx) ==
    IF ~(idx < size(v)) THEN Out(v, NoRet, "assert")
    ELSE Out(v, v.m_buffer[idx], "ok")

front(v) ==
    IF empty(v) THEN Out(v, NoRet, "assert")
    ELSE Out(v, v.m_buffer[0], "ok")

back(v) ==
    IF empty(v) THEN Out(v, NoRet, "assert")
    ELSE Out(v, v.m_buffer[size(v) - 1], "ok")

\* ---------------------------------------------------------- emplace/insert
\* The value an argument denotes when the constructor reads it.
ArgValue(buf, arg) == IF arg.ref THEN buf[arg.x] ELSE arg.x

\* shift_right stopping one slot early.
RECURSIVE shift_right_short(_, _, _)
shift_right_short(buf, it, p_insert) ==
    IF ~(it > p_insert + 1) THEN buf
    ELSE shift_right_short(moved_out([buf EXCEPT ![it] = buf[it - 1]], it - 1),
                           it - 1, p_insert)

\* for (it = end() - 1; it > p_insert; --it) *it = std::move(*(it - 1));
RECURSIVE shift_right(_, _, _)
shift_right(buf, it, p_insert) ==
    IF ~(it > p_insert) THEN buf
    ELSE shift_right(moved_out([buf EXCEPT ![it] = buf[it - 1]], it - 1),
                     it - 1, p_insert)

\* emplace that returns without inserting when the vector is full.
emplace_drop_when_full(v, pos, arg) ==
    IF ~(size(v) < N) THEN Out(v, pos, "ok")
    ELSE IF ~(pos >= 0 /\ pos <= size(v)) THEN Out(v, NoRet, "assert")
    ELSE LET index == pos
             end == size(v)
             made == moved_out(construct(v.m_buffer, end, v.m_buffer[end - 1]),
                               end - 1)
             shifted == shift_right(made, end - 1, index)
             buf == IF index < v.m_size
                    THEN [shifted EXCEPT ![index] = ArgValue(shifted, arg)]
                    ELSE construct(v.m_buffer, index, ArgValue(v.m_buffer, arg))
         IN  Out([v EXCEPT !.m_buffer = buf, !.m_size = v.m_size + 1],
                 index, "ok")

emplace(v, pos, arg) ==
    IF ~(size(v) < N) THEN Out(v, NoRet, "assert")
    ELSE IF ~(pos >= 0 /\ pos <= size(v)) THEN Out(v, NoRet, "assert")
    ELSE LET index == pos
             end == size(v)
             made == moved_out(construct(v.m_buffer, end, v.m_buffer[end - 1]),
                               end - 1)
             shifted == shift_right(made, end - 1, index)
             buf == IF index < v.m_size
                    THEN [shifted EXCEPT ![index] = ArgValue(shifted, arg)]
                    ELSE construct(v.m_buffer, index, ArgValue(v.m_buffer, arg))
         IN  Out([v EXCEPT !.m_buffer = buf, !.m_size = v.m_size + 1],
                 index, "ok")

\* insert that appends whatever the position.
insert_at_end(v, pos, arg) == emplace(v, size(v), arg)

insert(v, pos, arg) == emplace(v, pos, arg)

\* ------------------------------------------------------------------- erase
\* std::move(first, last, d_first): move-assigns each element of
\* [first, last) to the range starting at d_first, front to back.
RECURSIVE std_move(_, _, _, _)
std_move(buf, first, last, d_first) ==
    IF first >= last THEN buf
    ELSE std_move(moved_out([buf EXCEPT ![d_first] = buf[first]], first),
                  first + 1, last, d_first + 1)

\* erase whose position assertion admits end().
erase_admits_end(v, pos) ==
    IF empty(v) THEN Out(v, NoRet, "assert")
    ELSE IF ~(pos >= 0 /\ pos <= size(v)) THEN Out(v, NoRet, "assert")
    ELSE LET it == pos
             moved == [v EXCEPT !.m_buffer = std_move(v.m_buffer, it + 1, size(v), it)]
             popped == pop_back(moved)
         IN  Out(popped.v, IF popped.end = "ok" THEN it ELSE NoRet, popped.end)

\* erase that shifts the tail but does not pop the last element.
erase_no_pop(v, pos) ==
    IF empty(v) THEN Out(v, NoRet, "assert")
    ELSE IF ~(pos >= 0 /\ pos < size(v)) THEN Out(v, NoRet, "assert")
    ELSE LET it == pos
             moved == [v EXCEPT !.m_buffer = std_move(v.m_buffer, it + 1, size(v), it)]
         IN  Out(moved, it, "ok")

erase(v, pos) ==
    IF empty(v) THEN Out(v, NoRet, "assert")
    ELSE IF ~(pos >= 0 /\ pos < size(v)) THEN Out(v, NoRet, "assert")
    ELSE LET it == pos
             moved == [v EXCEPT !.m_buffer = std_move(v.m_buffer, it + 1, size(v), it)]
             popped == pop_back(moved)
         IN  Out(popped.v, IF popped.end = "ok" THEN it ELSE NoRet, popped.end)

\* erase_range that lowers m_size without destroying the leftover slots.
erase_range_no_destroy(v, first, last) ==
    IF ~(first >= 0 /\ first <= size(v)) THEN Out(v, NoRet, "assert")
    ELSE IF ~(last >= first /\ last <= size(v)) THEN Out(v, NoRet, "assert")
    ELSE IF first = last THEN Out(v, first, "ok")
    ELSE LET moved == [v EXCEPT !.m_buffer = std_move(v.m_buffer, last, size(v), first)]
             new_end == first + (size(v) - last)
             new_size == new_end
         IN  Out([moved EXCEPT !.m_size = new_size], first, "ok")

erase_range(v, first, last) ==
    IF ~(first >= 0 /\ first <= size(v)) THEN Out(v, NoRet, "assert")
    ELSE IF ~(last >= first /\ last <= size(v)) THEN Out(v, NoRet, "assert")
    ELSE IF first = last THEN Out(v, first, "ok")
    ELSE LET moved == [v EXCEPT !.m_buffer = std_move(v.m_buffer, last, size(v), first)]
             new_end == first + (size(v) - last)
             new_size == new_end
             shrunk == destruct_and_downsize(moved, new_size)
         IN  Out(shrunk.v, IF shrunk.end = "ok" THEN first ELSE NoRet, shrunk.end)

\* ------------------------------------------------------------ constructors
\* m_buffer{ }, m_size{ count }, then the loop of placement news.
static_vector_count_value(count, val) ==
    Out([alive |-> TRUE,
         m_buffer |-> construct_range(m_buffer_init, 0, count, val),
         m_size |-> count], NoRet, WriteEnd(count))

static_vector_count(count) == static_vector_count_value(count, DefaultValue)

RECURSIVE construct_list(_, _, _)
construct_list(buf, i, list) ==
    IF ~(i < Len(list)) THEN buf
    ELSE construct_list(IF i < N THEN construct(buf, i, list[i + 1]) ELSE buf,
                        i + 1, list)

static_vector_list(list) ==
    Out([alive |-> TRUE,
         m_buffer |-> construct_list(m_buffer_init, 0, list),
         m_size |-> Len(list)], NoRet, WriteEnd(Len(list)))

\* The outcome of an operation on two instances: v is *this, w is rhs.
Out2(v, w, e) == [v |-> v, w |-> w, end |-> e]

RECURSIVE copy_elements(_, _, _, _)
copy_elements(buf, rhs, i, count) ==
    IF ~(i < count) THEN buf
    ELSE copy_elements(construct(buf, i, rhs.m_buffer[i]), rhs, i + 1, count)

\* A copy constructor that moves the elements out of its source.
static_vector_copy_moves(rhs) ==
    Out2([alive |-> TRUE,
          m_buffer |-> copy_elements(m_buffer_init, rhs, 0, size(rhs)),
          m_size |-> size(rhs)],
         [rhs EXCEPT !.m_buffer = [i \in Slots |->
                                     IF i < size(rhs) THEN MovedFrom
                                     ELSE rhs.m_buffer[i]]], "ok")

static_vector_copy(rhs) ==
    Out2([alive |-> TRUE,
          m_buffer |-> copy_elements(m_buffer_init, rhs, 0, size(rhs)),
          m_size |-> size(rhs)], rhs, "ok")

\* The copy constructor when value_type(rhs[k]) throws, k < rhs.size(): the
\* loop has constructed slots 0..k-1, nothing catches the exception and the
\* destructor of an object whose constructor throws does not run, so the
\* constructed elements stay where they are while the storage goes away.
static_vector_copy_throws(rhs, k) ==
    Out2([alive |-> FALSE,
          m_buffer |-> copy_elements(m_buffer_init, rhs, 0, k),
          m_size |-> size(rhs)], rhs, "throw")

\* for (i < count) new (base + i) value_type(std::move(rhs[i])): the pair
\* <<buffer of *this, buffer of rhs>> after the loop.
RECURSIVE move_elements(_, _, _, _)
move_elements(buf, rbuf, i, count) ==
    IF ~(i < count) THEN <<buf, rbuf>>
    ELSE move_elements(construct(buf, i, rbuf[i]), moved_out(rbuf, i),
                       i + 1, count)

static_vector_move(rhs) ==
    LET count == size(rhs)
        bufs == move_elements(m_buffer_init, rhs.m_buffer, 0, count)
    IN  Out2([alive |-> TRUE, m_buffer |-> bufs[1], m_size |-> count],
             clear([rhs EXCEPT !.m_buffer = bufs[2]]).v, "ok")

\* ~static_vector(): destroys [begin(), end()); then the storage, with
\* whatever the slots from end() on still hold, goes with the instance.
destructor(v) ==
    LET destroyed == destroy_range(v.m_buffer, 0, size(v))
    IN  [NoInstance EXCEPT !.m_buffer = [i \in Slots |->
                                           IF i < size(v) THEN destroyed[i]
                                           ELSE NoObj]]

\* -------------------------------------------------------------------- swap
\* for (i < min_size) std::swap(lhs_base[i], rhs_base[i])
RECURSIVE swap_common(_, _, _, _)
swap_common(lbuf, rbuf, i, min_size) ==
    IF ~(i < min_size) THEN <<lbuf, rbuf>>
    ELSE swap_common([lbuf EXCEPT ![i] = rbuf[i]], [rbuf EXCEPT ![i] = lbuf[i]],
                     i + 1, min_size)

\* for (i = from; i < to; ++i) new (dst + i) value_type(std::move(src[i])):
\* <<dst, src>> after the loop.
RECURSIVE move_tail(_, _, _, _)
move_tail(dst, src, i, to) ==
    IF ~(i < to) THEN <<dst, src>>
    ELSE move_tail(construct(dst, i, src[i]), moved_out(src, i), i + 1, to)

\* swap that moves the tail only when *this is the shorter side.
swap_one_sided(lhs, rhs) ==
    LET lhs_size == size(lhs)
        rhs_size == size(rhs)
        min_size == IF lhs_size < rhs_size THEN lhs_size ELSE rhs_size
        common == swap_common(lhs.m_buffer, rhs.m_buffer, 0, min_size)
        tail == IF lhs_size < rhs_size
                THEN move_tail(common[1], common[2], lhs_size, rhs_size)
                ELSE common
    IN  Out2([lhs EXCEPT !.m_buffer = tail[1], !.m_size = rhs_size],
             [rhs EXCEPT !.m_buffer = tail[2], !.m_size = lhs_size], "ok")

\* swap that exchanges the elements and leaves each m_size as it was.
swap_keeps_sizes(lhs, rhs) ==
    LET lhs_size == size(lhs)
        rhs_size == size(rhs)
        min_size == IF lhs_size < rhs_size THEN lhs_size ELSE rhs_size
        common == swap_common(lhs.m_buffer, rhs.m_buffer, 0, min_size)
        tail == IF lhs_size < rhs_size
                THEN move_tail(common[1], common[2], lhs_size, rhs_size)
                ELSE IF lhs_size > rhs_size
                THEN LET t == move_tail(common[2], common[1], rhs_size, lhs_size)
                     IN  <<t[2], t[1]>>
                ELSE common
    IN  Out2([lhs EXCEPT !.m_buffer = tail[1]],
             [rhs EXCEPT !.m_buffer = tail[2]], "ok")

swap(lhs, rhs) ==
    LET lhs_size == size(lhs)
        rhs_size == size(rhs)
        min_size == IF lhs_size < rhs_size THEN lhs_size ELSE rhs_size
        common == swap_common(lhs.m_buffer, rhs.m_buffer, 0, min_size)
        tail == IF lhs_size < rhs_size
                THEN move_tail(common[1], common[2], lhs_size, rhs_size)
                ELSE IF lhs_size > rhs_size
                THEN LET t == move_tail(common[2], common[1], rhs_size, lhs_size)
                     IN  <<t[2], t[1]>>
                ELSE common
    IN  Out2([lhs EXCEPT !.m_buffer = tail[1], !.m_size = rhs_size],
             [rhs EXCEPT !.m_buffer = tail[2], !.m_size = lhs_size], "ok")

\* ------------------------------------------------------------- operator=
\* operator=(static_vector tmp): tmp is built by the caller from rhs (copy or
\* move), swapped with *this and destroyed when the call returns.
assign_copy(lhs, rhs) ==
    LET tmp == static_vector_copy(rhs).v
        swapped == swap(lhs, tmp)
    IN  Out2(swapped.v, rhs, "ok")

assign_move(lhs, rhs) ==
    LET made == static_vector_move(rhs)
        swapped == swap(lhs, made.v)
    IN  Out2(swapped.v, made.w, "ok")

\* ---------------------------------------------------------------- flat_map
\* dk::flat_map<Key, T> with Compare = std::less<Key> and Container =
\* std::vector<std::pair<Key, T>>.  Keys are 0..MaxKey, mapped values are
\* Values.  An iterator is the index of its entry, end() is the size.
Keys == 0..MaxKey

value_type(key, mapped) == [first |-> key, second |-> mapped]

Pairs == {value_type(k, m) : k \in Keys, m \in Values}

\* The lists and ranges a flat_map is constructed from.
PairLists == UNION {[1..n -> Pairs] : n \in 0..(MaxKey + 1)}

\* An instance: alive is FALSE before construction and after destruction.
flat_map_default == [alive |-> TRUE, m_container |-> <<>>]
NoFlatMap == [alive |-> FALSE, m_container |-> <<>>]

\* *it for an iterator it
Deref(c, it) == c[it + 1]

key_compare(a, b) == a < b

\* compare_op on the keys of its arguments
compare_op(a, b) == key_compare(a, b)

equal_op(a, b) == ~compare_op(a, b) /\ ~compare_op(b, a)

\* std::lower_bound over [first, first + len): binary search for the first
\* entry whose key is not less than key.
RECURSIVE std_lower_bound(_, _, _, _)
std_lower_bound(c, first, len, key) ==
    IF ~(len > 0) THEN first
    ELSE LET half == len \div 2
             middle == first + half
         IN  IF compare_op(Deref(c, middle).first, key)
             THEN std_lower_bound(c, middle + 1, len - half - 1, key)
             ELSE std_lower_bound(c, first, half, key)

\* std::upper_bound over [first, first + len): binary search for the first
\* entry whose key is greater than key.
RECURSIVE std_upper_bound(_, _, _, _)
std_upper_bound(c, first, len, key) ==
    IF ~(len > 0) THEN first
    ELSE LET half == len \div 2
             middle == first + half
         IN  IF compare_op(key, Deref(c, middle).first)
             THEN std_upper_bound(c, first, half, key)
             ELSE std_upper_bound(c, middle + 1, len - half - 1, key)

lower_bound(c, key) == std_lower_bound(c, 0, Len(c), key)

\* upper_bound that always returns end().
upper_bound_at_end(c, key) == Len(c)

upper_bound(c, key) == std_upper_bound(c, 0, Len(c), key)

\* m_container.emplace(pos, ...): the new entry goes before pos.
vector_emplace(c, pos, entry) ==
    SubSeq(c, 1, pos) \o <<entry>> \o SubSeq(c, pos + 1, Len(c))

\* m_container.erase(first, last)
vector_erase(c, first, last) ==
    SubSeq(c, 1, first) \o SubSeq(c, last + 1, Len(c))

\* What try_emplace returns: std::pair<iterator, bool>.
Inserted(it, new) == [first |-> it, second |-> new]

\* try_emplace that overwrites the value of a key already present.
try_emplace_overwrites(c, key, mapped) ==
    LET it == lower_bound(c, key)
    IN  IF it = Len(c) \/ ~equal_op(Deref(c, it).first, key)
        THEN Out(vector_emplace(c, upper_bound(c, key), value_type(key, mapped)),
                 Inserted(upper_bound(c, key), TRUE), "ok")
        ELSE Out([c EXCEPT ![it + 1] = value_type(key, mapped)],
                 Inserted(it, FALSE), "ok")

try_emplace(c, key, mapped) ==
    LET it == lower_bound(c, key)
    IN  IF it = Len(c) \/ ~equal_op(Deref(c, it).first, key)
        THEN Out(vector_emplace(c, upper_bound(c, key), value_type(key, mapped)),
                 Inserted(upper_bound(c, key), TRUE), "ok")
        ELSE Out(c, Inserted(it, FALSE), "ok")

\* emplace(args...): value_type value(args...); try_emplace(value.first,
\* value.second)
flat_map_emplace(c, value) == try_emplace(c, value.first, value.second)

flat_map_insert(c, value) == flat_map_emplace(c, value)

\* operator[]: try_emplace(key).first->second, a reference to the mapped
\* value of the entry at the iterator returned; reported as that iterator.
flat_map_subscript(c, key) ==
    LET o == try_emplace(c, key, DefaultValue)
    IN  Out(o.v, o.ret.first, "ok")

\* erase(key)
flat_map_erase_key(c, key) ==
    LET it == lower_bound(c, key)
    IN  IF it # Len(c) /\ equal_op(Deref(c, it).first, key)
        THEN Out(vector_erase(c, it, it + 1), 1, "ok")
        ELSE Out(c, 0, "ok")

\* erase(pos) for a dereferenceable pos: m_container.erase(pos) returns the
\* iterator to the entry after the erased one.
flat_map_erase(c, pos) == Out(vector_erase(c, pos, pos + 1), pos, "ok")

\* erase(begin, end) for a range of the container
flat_map_erase_range(c, first, last) ==
    Out(vector_erase(c, first, last), first, "ok")

\* swap(other): the container of *this in v, that of other in w
flat_map_swap(c, other) == [v |-> other, w |-> c, ret |-> NoRet, end |-> "ok"]

flat_map_clear(c) == Out(<<>>, NoRet, "ok")

\* find(key): the container stays, the iterator is returned
flat_map_find(c, key) ==
    LET it == lower_bound(c, key)
    IN  IF it # Len(c) /\ equal_op(Deref(c, it).first, key)
        THEN Out(c, it, "ok")
        ELSE Out(c, Len(c), "ok")

\* contains(key): find(key) != end()
flat_map_contains(c, key) == Out(c, flat_map_find(c, key).ret # Len(c), "ok")

\* std::sort(begin, end, compare_op()): the entries in an order in which no
\* entry has a key less than the key of an entry before it.  The order of
\* entries with equivalent keys is unspecified: every such order.
\* sorted_orders(c, left) is every such order of the entries of c at the
\* indices left: one of the entries that no other is less than, then such
\* an order of the rest.
RECURSIVE sorted_orders(_, _)
sorted_orders(c, left) ==
    IF left = {} THEN {<<>>}
    ELSE UNION {{<<c[i]>> \o rest : rest \in sorted_orders(c, left \ {i})} :
                  i \in {j \in left :
                           \A k \in left : ~compare_op(c[k].first, c[j].first)}}

std_sort(c) == sorted_orders(c, DOMAIN c)

\* std::unique(begin, end, equal_op()): of every run of consecutive
\* equivalent entries the first one stays.
RECURSIVE std_unique(_, _, _)
std_unique(c, i, kept) ==
    IF i > Len(c) THEN kept
    ELSE IF kept # <<>> /\ equal_op(kept[Len(kept)].first, c[i].first)
         THEN std_unique(c, i + 1, kept)
         ELSE std_unique(c, i + 1, Append(kept, c[i]))

\* remove_duplicates that removes nothing.
remove_duplicates_none(c) == c

remove_duplicates(c) == std_unique(c, 1, <<>>)

\* flat_map(list) and flat_map(begin, end): the containers the constructor
\* can leave, one for every outcome of the sort.
flat_map_list(list) == {remove_duplicates(sorted) : sorted \in std_sort(list)}

\* ------------------------------------------------------------------- pcg32
\* Machine words.  A uintN_t or intN_t value is the sequence of its N / 8
\* bytes, the least significant first; an intN_t is in two's complement.
Bits32 == 32
Bits64 == 64

Zero(w) == [j \in 1..(w \div 8) |-> 0]

\* The w-bit word of a number 0 <= n < 2^31.
WordOf(n, w) ==
    [j \in 1..(w \div 8) |-> IF j <= 4 THEN (n \div 2^(8 * (j - 1))) % 256 ELSE 0]

\* The word written with the hexadecimal digits given, the most significant
\* first (two digits a byte).
Hex(digits) ==
    [j \in 1..(Len(digits) \div 2) |->
        16 * digits[Len(digits) - 2 * j + 1] + digits[Len(digits) - 2 * j + 2]]

\* Bit i of a word, bit 0 the least significant.
Bit(a, i) == (a[i \div 8 + 1] \div 2^(i % 8)) % 2

\* The w-bit word whose bit i is bit(i).
OfBits(bit(_), w) ==
    SubSeq([j \in 1..(w \div 8) |->
               bit(8 * j - 8) + 2 * bit(8 * j - 7) + 4 * bit(8 * j - 6)
               + 8 * bit(8 * j - 5) + 16 * bit(8 * j - 4) + 32 * bit(8 * j - 3)
               + 64 * bit(8 * j - 2) + 128 * bit(8 * j - 1)], 1, w \div 8)

\* The number of a word that is below 2^31.
RECURSIVE ToNat(_)
ToNat(a) == IF a = <<>> THEN 0 ELSE a[1] + 256 * ToNat(Tail(a))

\* a ^ b, a | b, ~a
Xor(a, b) == OfBits(LAMBDA i : (Bit(a, i) + Bit(b, i)) % 2, 8 * Len(a))
Or(a, b) == OfBits(LAMBDA i : IF Bit(a, i) + Bit(b, i) > 0 THEN 1 ELSE 0, 8 * Len(a))
Not(a) == [j \in DOMAIN a |-> 255 - a[j]]

\* a >> k, a << k (within the width of a)
Shr(a, k) == OfBits(LAMBDA i : IF i + k < 8 * Len(a) THEN Bit(a, i + k) ELSE 0, 8 * Len(a))
Shl(a, k) == OfBits(LAMBDA i : IF i >= k THEN Bit(a, i - k) ELSE 0, 8 * Len(a))

\* (uintW_t)a for a narrower W
Trunc(a, w) == SubSeq(a, 1, w \div 8)

\* a + b modulo 2^width: byte j of the sum with the carry of the bytes below
RECURSIVE AddCarry(_, _, _, _, _)
AddCarry(a, b, j, carry, sum) ==
    IF j > Len(a) THEN sum
    ELSE LET t == a[j] + b[j] + carry
         IN  AddCarry(a, b, j + 1, t \div 256, Append(sum, t % 256))

Add(a, b) == AddCarry(a, b, 1, 0, <<>>)

\* -a and a - b modulo 2^width
Neg(a) == Add(Not(a), WordOf(1, 8 * Len(a)))
Sub(a, b) == Add(a, Neg(b))

\* a * b modulo 2^width: column k of the long multiplication is the sum of
\* the products a[i] * b[k + 1 - i], with the carry of the columns below.
RECURSIVE Column(_, _, _, _)
Column(a, b, k, i) ==
    IF i > k THEN 0 ELSE a[i] * b[k + 1 - i] + Column(a, b, k, i + 1)

RECURSIVE MulFrom(_, _, _, _, _)
MulFrom(a, b, k, carry, product) ==
    IF k > Len(a) THEN product
    ELSE LET t == Column(a, b, k, 1) + carry
         IN  MulFrom(a, b, k + 1, t \div 256, Append(product, t % 256))

Mul(a, b) == MulFrom(a, b, 1, 0, <<>>)

\* a < b for unsigned words, from the most significant byte j down
RECURSIVE LtFrom(_, _, _)
LtFrom(a, b, j) ==
    IF j = 0 THEN FALSE
    ELSE IF a[j] # b[j] THEN a[j] < b[j]
    ELSE LtFrom(a, b, j - 1)

Lt(a, b) == LtFrom(a, b, Len(a))

\* The sign of a word in two's complement: it is negative.
Sign(a) == a[Len(a)] >= 128

\* a < b for words in two's complement
SLt(a, b) == IF Sign(a) # Sign(b) THEN Sign(a) ELSE Lt(a, b)

\* A 32-bit word as its two 16-bit halves, the upper one first, and back.
Halves(a) == <<a[3] + 256 * a[4], a[1] + 256 * a[2]>>
OfHalves(h) == <<h[2] % 256, h[2] \div 256, h[1] % 256, h[1] \div 256>>

\* a % b for uint32_t, b # 0: long division, one bit of a at a time from bit
\* i - 1 down; b and the remainder so far are in halves.
RECURSIVE ModFrom(_, _, _, _)
ModFrom(a, b, i, rem) ==
    IF i = 0 THEN OfHalves(rem)
    ELSE LET low == 2 * rem[2] + Bit(a, i - 1)
             next == <<2 * rem[1] + low \div 65536, low % 65536>>
         IN  IF next[1] < b[1] \/ (next[1] = b[1] /\ next[2] < b[2])
             THEN ModFrom(a, b, i - 1, next)
             ELSE IF next[2] >= b[2]
             THEN ModFrom(a, b, i - 1, <<next[1] - b[1], next[2] - b[2]>>)
             ELSE ModFrom(a, b, i - 1, <<next[1] - b[1] - 1, next[2] + 65536 - b[2]>>)

Mod(a, b) == ModFrom(a, Halves(b), Bits32, <<0, 0>>)

\* INT32_MIN, the one int32_t whose negation overflows
IntMin == Shl(WordOf(1, Bits32), Bits32 - 1)

DK_PCG32_MUL == Hex(<<5, 8, 5, 1, 15, 4, 2, 13, 4, 12, 9, 5, 7, 15, 2, 13>>)
DK_PCG32_INC == Hex(<<1, 4, 0, 5, 7, 11, 7, 14, 15, 7, 6, 7, 8, 1, 4, 15>>)

\* struct dk_pcg32: its state.  seeded and steps are history: whether
\* dk_pcg32_seed has been called, and how often the state has advanced since.
dk_pcg32(state, steps) == [state |-> state, seeded |-> TRUE, steps |-> steps]
dk_pcg32_unseeded(state) == [state |-> state, seeded |-> FALSE, steps |-> 0]

\* The outcome of a generator function: the state afterwards, the value
\* returned, the raw draws made and how it ended.
Drawn(state, r, draws, e) == [state |-> state, ret |-> r, draws |-> draws, end |-> e]

\* state * DK_PCG32_MUL + DK_PCG32_INC
Advance(state) == Add(Mul(state, DK_PCG32_MUL), DK_PCG32_INC)

\* (value >> rot) | (value << ((-rot + 1u) & 31)) with value and rot taken
\* from the state before the advance
Output(state) ==
    LET value == Trunc(Shr(Xor(state, Shr(state, 18)), 27), Bits32)
        rot == ToNat(Shr(state, 59))
    IN  Or(Shr(value, rot), Shl(value, (Bits32 - rot + 1) % Bits32))

dk_pcg32_get_u32(state) ==
    Drawn(Advance(state), Output(state), <<Output(state)>>, "ok")

\* dk_pcg32_seed that keeps the state it finds.
dk_pcg32_seed_no_reset(state, seed) ==
    LET first == dk_pcg32_get_u32(state).state
    IN  Drawn(dk_pcg32_get_u32(Add(first, seed)).state, NoRet, <<>>, "ok")

dk_pcg32_seed(state, seed) ==
    LET first == dk_pcg32_get_u32(Zero(Bits64)).state
    IN  Drawn(dk_pcg32_get_u32(Add(first, seed)).state, NoRet, <<>>, "ok")

\* dk_pcg32_get_u32(pcg) < 0xFFFFFFFF / 2
dk_pcg32_get_bool(state) ==
    LET draw == dk_pcg32_get_u32(state)
    IN  Drawn(draw.state,
              Lt(draw.ret, Shr(Not(Zero(Bits32)), 1)), draw.draws, "ok")

\* range_loop that accepts every draw.
range_loop_accepts_all(state, min, bounds, threshold, draws) ==
    LET draw == dk_pcg32_get_u32(state)
    IN  Drawn(draw.state, Add(min, Mod(draw.ret, bounds)),
              Append(draws, draw.ret), "ok")

\* while (1) { r = dk_pcg32_get_u32(pcg); if (r >= threshold) return min +
\* r % bounds; }
RECURSIVE range_loop(_, _, _, _, _)
range_loop(state, min, bounds, threshold, draws) ==
    LET draw == dk_pcg32_get_u32(state)
        r == draw.ret
    IN  IF ~Lt(r, threshold)
        THEN Drawn(draw.state, Add(min, Mod(r, bounds)), Append(draws, r), "ok")
        ELSE range_loop(draw.state, min, bounds, threshold, Append(draws, r))

\* The program stops at an operation whose behaviour is undefined (a trap).
Trap(state) == Drawn(state, <<>>, <<>>, "ub")

\* dk_pcg32_get_range_u32: its outcomes.  bounds = max - min; threshold =
\* -(int32_t)bounds % bounds, the remainder taken in uint32_t.  The negation
\* of INT32_MIN overflows (undefined: it wraps to INT32_MIN or traps) and so
\* does the remainder by 0 (undefined: a trap).
dk_pcg32_get_range_u32(state, min, max) ==
    LET bounds == Sub(max, min)
    IN  IF bounds = Zero(Bits32) THEN {Trap(state)}
        ELSE {range_loop(state, min, bounds, Mod(Neg(bounds), bounds), <<>>)}
             \cup (IF bounds = IntMin THEN {Trap(state)} ELSE {})

\* int32_t a - b overflows
SubOverflows(a, b) ==
    Sign(a) # Sign(b) /\ Sign(Sub(a, b)) # Sign(a)

\* dk_pcg32_get_range_i32: its outcomes.  range = min - max and -range are
\* int32_t operations (undefined on overflow: they wrap or trap).
dk_pcg32_get_range_i32(state, min, max) ==
    IF min # max
    THEN LET range == Sub(min, max)
             abs_range == Add(IF SLt(range, Zero(Bits32)) THEN Neg(range) ELSE range,
                              WordOf(1, Bits32))
             range_min == IF SLt(min, max) THEN min ELSE max
         IN  dk_pcg32_get_range_u32(state, Zero(Bits32), Add(abs_range, range_min))
             \cup (IF SubOverflows(min, max) \/ range = IntMin
                   THEN {Trap(state)} ELSE {})
    ELSE {Drawn(state, min, <<>>, "ok")}

\* ---------------------------------------------------------------- actions
\* The caller is between two calls and no assertion has stopped the program.
Idle == Op("idle", "a", 0, 0, NoArg)

Running == status = "ok" /\ op = Idle

\* No history is kept.
NoHist == [start |-> {}, log |-> <<>>]

\* The history of a client scenario that starts with a call named in names.
HistFrom(names) == [start |-> names, log |-> <<>>]

\* The history after a call: the call, the instances before it, what it
\* returned and how it ended.
Track(call, r, e) ==
    IF hist.log # <<>> \/ call.name \in hist.start
    THEN [hist EXCEPT !.log = Append(@, [call |-> call, before |-> vec,
                                         ret |-> r, end |-> e])]
    ELSE hist

\* An operation on instance x ends.  After undefined behaviour (a write
\* past the buffer) the counter, which lies behind the buffer, has any value.
Finish(x, name, i, j, arg, o) ==
    /\ \E s \in (IF o.end = "ub" THEN Counts ELSE {o.v.m_size}) :
          vec' = [vec EXCEPT ![x] = [o.v EXCEPT !.m_size = s]]
    /\ op' = Op(name, x, i, j, arg)
    /\ ret' = o.ret
    /\ status' = o.end
    /\ hist' = Track(Op(name, x, i, j, arg), o.ret, o.end)
    /\ UNCHANGED <<fmap, pcg>>

\* An operation on instance x with rhs y ends.
Finish2(x, y, name, o) ==
    /\ vec' = [vec EXCEPT ![x] = o.v, ![y] = o.w]
    /\ op' = Op(name, x, 0, 0, NoArg)
    /\ ret' = NoRet
    /\ status' = o.end
    /\ hist' = Track(Op(name, x, 0, 0, NoArg), NoRet, o.end)
    /\ UNCHANGED <<fmap, pcg>>

Other(x) == CHOOSE y \in Inst : y # x

\* The caller applies the element operations to instance "a"; instance "b"
\* is constructed, destroyed, copied, moved, assigned and swapped with "a"
\* (in both directions), so every state of one is a state of the other.
Primary == {"a"}

\* The iterators a caller passes: those of [begin, end], one before begin
\* and one past end.
Iterators(v) == -1..(size(v) + 1)

Lists == UNION {[1..n -> Values] : n \in 0..(N + 1)}

Construct ==
    /\ Running
    /\ \E x \in Inst :
          /\ ~vec[x].alive
          /\ Finish(x, "static_vector", 0, 0, NoArg,
                    Out(static_vector_default, NoRet, "ok"))

ConstructCount ==
    /\ Running
    /\ \E x \in Inst, count \in Counts :
          /\ ~vec[x].alive
          /\ Finish(x, "static_vector_count", count, 0, NoArg,
                    static_vector_count(count))

ConstructCountValue ==
    /\ Running
    /\ \E x \in Inst, count \in Counts, val \in Values :
          /\ ~vec[x].alive
          /\ Finish(x, "static_vector_count_value", count, 0, ValArg(val),
                    static_vector_count_value(count, val))

ConstructList ==
    /\ Running
    /\ \E x \in Inst, list \in Lists :
          /\ ~vec[x].alive
          /\ Finish(x, "static_vector_list", Len(list), 0, NoArg,
                    static_vector_list(list))

ConstructCopy ==
    /\ Running
    /\ \E x \in Inst :
          /\ ~vec[x].alive
          /\ vec[Other(x)].alive
          /\ Finish2(x, Other(x), "static_vector_copy",
                     static_vector_copy(vec[Other(x)]))

\* static_vector x(y) where the copy of y[k] throws.
ConstructCopyThrows ==
    /\ Running
    /\ \E x \in Inst :
          /\ ~vec[x].alive
          /\ vec[Other(x)].alive
          /\ \E k \in 0..(size(vec[Other(x)]) - 1) :
                LET o == static_vector_copy_throws(vec[Other(x)], k)
                    call == Op("static_vector_copy", x, k, 0, NoArg)
                IN  /\ vec' = [vec EXCEPT ![x] = o.v, ![Other(x)] = o.w]
                    /\ op' = call
                    /\ ret' = NoRet
                    /\ status' = o.end
                    /\ hist' = Track(call, NoRet, o.end)
                    /\ UNCHANGED <<fmap, pcg>>

ConstructMove ==
    /\ Running
    /\ \E x \in Inst :
          /\ ~vec[x].alive
          /\ vec[Other(x)].alive
          /\ Finish2(x, Other(x), "static_vector_move",
                     static_vector_move(vec[Other(x)]))

Destruct ==
    /\ Running
    /\ \E x \in Inst :
          /\ vec[x].alive
          /\ Finish(x, "destructor", 0, 0, NoArg,
                    Out(destructor(vec[x]), NoRet, "ok"))

AssignCopy ==
    /\ Running
    /\ \E x \in Inst :
          /\ vec[x].alive
          /\ vec[Other(x)].alive
          /\ Finish2(x, Other(x), "assign_copy",
                     assign_copy(vec[x], vec[Other(x)]))

AssignMove ==
    /\ Running
    /\ \E x \in Inst :
          /\ vec[x].alive
          /\ vec[Other(x)].alive
          /\ Finish2(x, Other(x), "assign_move",
                     assign_move(vec[x], vec[Other(x)]))

Swap ==
    /\ Running
    /\ \E x \in Inst :
          /\ vec[x].alive
          /\ vec[Other(x)].alive
          /\ Finish2(x, Other(x), "swap", swap(vec[x], vec[Other(x)]))

PushBack ==
    /\ Running
    /\ \E x \in Primary, val \in Values :
          /\ vec[x].alive
          /\ Finish(x, "push_back", 0, 0, ValArg(val), push_back(vec[x], val))

EmplaceBack ==
    /\ Running
    /\ \E x \in Primary, val \in Values :
          /\ vec[x].alive
          /\ Finish(x, "emplace_back", 0, 0, ValArg(val),
                    emplace_back(vec[x], val))

\* push_back(val) where the copy of val throws.
PushBackThrows ==
    /\ Running
    /\ \E x \in Primary, val \in Values :
          /\ vec[x].alive
          /\ Finish(x, "push_back", 0, 0, ValArg(val), push_back_throws(vec[x]))

\* emplace_back(val) where the constructor throws.
EmplaceBackThrows ==
    /\ Running
    /\ \E x \in Primary, val \in Values :
          /\ vec[x].alive
          /\ Finish(x, "emplace_back", 0, 0, ValArg(val),
                    emplace_back_throws(vec[x]))

PopBack ==
    /\ Running
    /\ \E x \in Primary :
          /\ vec[x].alive
          /\ Finish(x, "pop_back", 0, 0, NoArg, pop_back(vec[x]))

Emplace ==
    /\ Running
    /\ \E x \in Primary : \E pos \in Iterators(vec[x]), val \in Values :
          /\ vec[x].alive
          /\ Finish(x, "emplace", pos, 0, ValArg(val),
                    emplace(vec[x], pos, ValArg(val)))

\* emplace statement by statement.  While the call runs, op holds its
\* position: "emplace_enter" after the assertions (x is index), "emplace_shift"
\* in the loop (y is it), "emplace_count" before ++m_size.
Stepping == op.name \in {"emplace_enter", "emplace_shift", "emplace_count"}

\* A statement of the running call has left instance v and is at position name.
Step(name, it, v) ==
    /\ vec' = [vec EXCEPT ![op.self] = v]
    /\ op' = [op EXCEPT !.name = name, !.y = it]
    /\ UNCHANGED <<ret, status, hist, fmap, pcg>>

\* DK_ASSERT(size() < N); DK_ASSERT(pos >= cbegin() && pos <= cend());
\* index = pos - cbegin()
EmplaceEnter ==
    /\ Running
    /\ \E x \in Primary : \E pos \in Iterators(vec[x]), val \in Values :
          /\ vec[x].alive
          /\ IF size(vec[x]) < N /\ pos >= 0 /\ pos <= size(vec[x])
             THEN /\ op' = Op("emplace_enter", x, pos, 0, ValArg(val))
                  /\ UNCHANGED <<vec, ret, status, hist, fmap, pcg>>
             ELSE Finish(x, "emplace", pos, 0, ValArg(val),
                         emplace(vec[x], pos, ValArg(val)))

\* if (index < m_size): new (end()) value_type(std::move(back()));
\* it = end() - 1
EmplaceMoveLast ==
    /\ op.name = "emplace_enter"
    /\ LET v == vec[op.self]
           end == size(v)
       IN  /\ op.x < v.m_size
           /\ Step("emplace_shift", end - 1,
                   [v EXCEPT !.m_buffer =
                       moved_out(construct(v.m_buffer, end, v.m_buffer[end - 1]),
                                 end - 1)])

\* it > p_insert: *it = std::move(*(it - 1)); --it
EmplaceShift ==
    /\ op.name = "emplace_shift"
    /\ op.y > op.x
    /\ LET v == vec[op.self]
           it == op.y
       IN  Step("emplace_shift", it - 1,
                [v EXCEPT !.m_buffer =
                    moved_out([v.m_buffer EXCEPT ![it] = v.m_buffer[it - 1]],
                              it - 1)])

\* the loop is over: *p_insert = value_type(std::forward<Args>(args)...)
EmplaceAssign ==
    /\ op.name = "emplace_shift"
    /\ ~(op.y > op.x)
    /\ LET v == vec[op.self]
       IN  Step("emplace_count", op.y,
                [v EXCEPT !.m_buffer =
                    [v.m_buffer EXCEPT ![op.x] = ArgValue(v.m_buffer, op.arg)]])

\* else: new (p_insert) value_type(std::forward<Args>(args)...)
EmplaceAtEnd ==
    /\ op.name = "emplace_enter"
    /\ LET v == vec[op.self]
       IN  /\ ~(op.x < v.m_size)
           /\ Step("emplace_count", 0,
                   [v EXCEPT !.m_buffer =
                       construct(v.m_buffer, op.x, ArgValue(v.m_buffer, op.arg))])

\* ++m_size; return p_insert
EmplaceCount ==
    /\ op.name = "emplace_count"
    /\ LET v == vec[op.self]
       IN  Finish(op.self, "emplace", op.x, 0, op.arg,
                  Out([v EXCEPT !.m_size = v.m_size + 1], op.x, "ok"))

Insert ==
    /\ Running
    /\ \E x \in Primary : \E pos \in Iterators(vec[x]), val \in Values :
          /\ vec[x].alive
          /\ Finish(x, "insert", pos, 0, ValArg(val),
                    insert(vec[x], pos, ValArg(val)))

\* insert(pos, value) where value is a reference to element j of the vector
\* itself, as in v.insert(v.begin() + i, v[j])
InsertElement ==
    /\ Running
    /\ \E x \in Primary : \E pos \in Iterators(vec[x]), j \in 0..(size(vec[x]) - 1) :
          /\ vec[x].alive
          /\ Finish(x, "insert", pos, 0, RefArg(j),
                    insert(vec[x], pos, RefArg(j)))

Erase ==
    /\ Running
    /\ \E x \in Primary : \E pos \in Iterators(vec[x]) :
          /\ vec[x].alive
          /\ Finish(x, "erase", pos, 0, NoArg, erase(vec[x], pos))

EraseRange ==
    /\ Running
    /\ \E x \in Primary : \E first \in Iterators(vec[x]), last \in Iterators(vec[x]) :
          /\ vec[x].alive
          /\ Finish(x, "erase_range", first, last, NoArg,
                    erase_range(vec[x], first, last))

Clear ==
    /\ Running
    /\ \E x \in Primary :
          /\ vec[x].alive
          /\ Finish(x, "clear", 0, 0, NoArg, clear(vec[x]))

Resize ==
    /\ Running
    /\ \E x \in Primary, count \in Counts :
          /\ vec[x].alive
          /\ Finish(x, "resize", count, 0, NoArg, resize(vec[x], count))

ResizeValue ==
    /\ Running
    /\ \E x \in Primary, count \in Counts, val \in Values :
          /\ vec[x].alive
          /\ Finish(x, "resize_value", count, 0, ValArg(val),
                    resize_value(vec[x], count, val))

At ==
    /\ Running
    /\ \E x \in Primary, idx \in Counts :
          /\ vec[x].alive
          /\ Finish(x, "at", idx, 0, NoArg, at(vec[x], idx))

Subscript ==
    /\ Running
    /\ \E x \in Primary, idx \in Counts :
          /\ vec[x].alive
          /\ Finish(x, "subscript", idx, 0, NoArg, subscript(vec[x], idx))

Front ==
    /\ Running
    /\ \E x \in Primary :
          /\ vec[x].alive
          /\ Finish(x, "front", 0, 0, NoArg, front(vec[x]))

Back ==
    /\ Running
    /\ \E x \in Primary :
          /\ vec[x].alive
          /\ Finish(x, "back", 0, 0, NoArg, back(vec[x]))

\* The call has returned, or has thrown (out_of_range from at, an element's
\* exception from a constructor), which the caller catches; the caller goes
\* on to its next call.  The storage of an instance whose constructor threw
\* is released.  A failed assertion and undefined behaviour end the program.
Return ==
    /\ status \in {"ok", "out_of_range", "throw"}
    /\ op # Idle
    /\ ~Stepping
    /\ op' = Idle
    /\ ret' = NoRet
    /\ status' = "ok"
    /\ vec' = [x \in Inst |-> IF vec[x].alive THEN vec[x] ELSE NoInstance]
    /\ UNCHANGED <<hist, fmap, pcg>>

InitVec ==
    /\ vec = [x \in Inst |-> static_vector_default]
    /\ op = Idle
    /\ ret = NoRet
    /\ status = "ok"
    /\ fmap = [x \in Inst |-> flat_map_default]
    /\ pcg = dk_pcg32_unseeded(Zero(Bits64))

Init ==
    /\ InitVec
    /\ hist = NoHist

Next ==
    \/ Construct
    \/ ConstructCount
    \/ ConstructCountValue
    \/ ConstructList
    \/ ConstructCopy
    \/ ConstructMove
    \/ Destruct
    \/ AssignCopy
    \/ AssignMove
    \/ Swap
    \/ PushBack
    \/ EmplaceBack
    \/ PopBack
    \/ Emplace
    \/ Insert
    \/ Erase
    \/ EraseRange
    \/ Clear
    \/ Resize
    \/ ResizeValue
    \/ At
    \/ Subscript
    \/ Front
    \/ Back
    \/ Return

Spec == Init /\ [][Next]_vars

TypeOK ==
    /\ \A x \in Inst : vec[x].m_buffer \in [Slots -> Cell]
    /\ status \in {"ok", "out_of_range", "throw", "assert", "ub"}
    /\ hist.start \subseteq STRING

\* ------------------------------------------------------------- properties
\* A step in which the caller calls one of the operations named.
Calls(names) == op = Idle /\ op'.name \in names

\* The operations have returned normally so far.
Normal == status \in {"ok", "out_of_range"}

Live(v, i) == v.m_buffer[i] # NoObj

\* C1: in every instance, after operations that respected their
\* preconditions and returned normally, each slot below m_size holds a
\* constructed object and each slot from m_size to N - 1 holds none.
C1_SlotLiveness ==
    Normal =>
        \A x \in Inst : vec[x].alive =>
            \A i \in Slots : Live(vec[x], i) <=> i < vec[x].m_size

\* C2: while every precondition has held, 0 <= m_size <= N in every
\* instance, the two instances of a swap included.
C2_LengthBound ==
    Normal => \A x \in Inst : vec[x].m_size >= 0 /\ vec[x].m_size <= N

C2_Witness ==
    /\ status = "ok"
    /\ op.name = "swap"
    /\ vec["a"].m_size = N
    /\ vec["b"].m_size = 0

\* C3: a.swap(b) leaves in a the element sequence b had, in b the one a had,
\* and exchanges the two lengths.
C3_SwapExchanges ==
    [][Calls({"swap"}) =>
          LET x == op'.self
              y == Other(x)
          IN  /\ Elems(vec'[x]) = Elems(vec[y])
              /\ Elems(vec'[y]) = Elems(vec[x])
              /\ vec'[x].m_size = vec[y].m_size
              /\ vec'[y].m_size = vec[x].m_size
              /\ status' = "ok"]_vars

\* a was shorter than b, which was full: a = [..1 element..], b full.
C3_Witness ==
    /\ op.name = "swap"
    /\ op.self = "a"
    /\ vec["a"].m_size = N
    /\ vec["b"].m_size = 1
    /\ Elems(vec["a"]) # [k \in 1..N |-> vec["b"].m_buffer[0]]

\* C4: when swap returns, the formerly longer side holds no constructed
\* object at any index >= its new length: the originals of the tail it gave
\* away have been destroyed.
C4_SwapDestroysTail ==
    [][Calls({"swap"}) =>
          \A x \in Inst :
              vec[x].m_size > vec[Other(x)].m_size =>
                  \A i \in Slots :
                      (i >= vec[Other(x)].m_size /\ i < vec[x].m_size) =>
                          vec'[x].m_buffer[i] = NoObj]_vars

\* C5: the count constructor, the count+value constructor, the list
\* constructor and resize, asked for a length above N, end in a precondition
\* failure and leave m_size <= N.
C5_OverCapacityRejected ==
    (/\ op.name \in {"static_vector_count", "static_vector_count_value",
                     "static_vector_list", "resize", "resize_value"}
     /\ op.x > N)
        => (status = "assert" /\ vec[op.self].m_size <= N)

\* C6: push_back, emplace_back, emplace and insert on a full vector stop at
\* the assertion with nothing written: the call does not return, m_size
\* stays N and no slot changes.
C6_FullIsLoud ==
    [][(/\ Calls({"push_back", "emplace_back", "emplace", "insert"})
        /\ vec[op'.self].m_size = N)
          => (status' = "assert" /\ vec' = vec)]_vars

C6_Witness ==
    /\ op.name = "insert"
    /\ op.x \in 0..N
    /\ status = "assert"
    /\ vec[op.self].m_size = N
    /\ \A i \in Slots : Live(vec[op.self], i)

\* C7: pop_back, front, back and erase(pos) on an empty vector, erase(pos)
\* with pos outside [begin, end), and erase(first, last) with first or last
\* outside [begin, end] or last < first, stop at the assertion with m_size
\* and every slot unchanged.
C7_EmptyIsLoud ==
    [][LET v == vec[op'.self]
           outside(p) == p < 0 \/ p > v.m_size
       IN  (\/ Calls({"pop_back", "front", "back", "erase"}) /\ v.m_size = 0
            \/ Calls({"erase"}) /\ (op'.x < 0 \/ op'.x >= v.m_size)
            \/ Calls({"erase_range"}) /\ (\/ outside(op'.x)
                                          \/ outside(op'.y)
                                          \/ op'.y < op'.x))
              => (status' = "assert" /\ vec' = vec)]_vars

\* erase at end() of a non-empty vector
C7_Witness ==
    /\ op.name = "erase"
    /\ status = "assert"
    /\ vec[op.self].m_size > 0
    /\ op.x = vec[op.self].m_size

\* C8: at(i) fails with out_of_range exactly when i >= m_size and otherwise
\* returns the element at index i; either way nothing changes.
C8_CheckedAccess ==
    [][Calls({"at"}) =>
          LET v == vec[op'.self]
              i == op'.x
          IN  /\ (status' = "out_of_range") <=> (i >= v.m_size)
              /\ (i < v.m_size) => (status' = "ok" /\ ret' = Elems(v)[i + 1])
              /\ vec' = vec]_vars

\* at(N) on a full vector
C8_Witness ==
    /\ op.name = "at"
    /\ op.x = N
    /\ vec[op.self].m_size = N
    /\ status = "out_of_range"

\* C9: emplace/insert of a value v at index i in 0..m_size of a vector that
\* is not full leaves s[0..i) ++ [v] ++ s[i..m_size), adds 1 to m_size and
\* returns the iterator to index i; at i = m_size the result is that of
\* push_back(v).
C9_InsertResult ==
    [][LET x == op'.self
           s == Elems(vec[x])
           i == op'.x
           v == op'.arg.x
       IN  (/\ Calls({"emplace", "insert"})
            /\ ~op'.arg.ref
            /\ vec[x].m_size < N
            /\ i \in 0..vec[x].m_size)
              => /\ status' = "ok"
                 /\ Elems(vec'[x]) = SubSeq(s, 1, i) \o <<v>> \o SubSeq(s, i + 1, Len(s))
                 /\ vec'[x].m_size = vec[x].m_size + 1
                 /\ ret' = i
                 /\ (i = vec[x].m_size) =>
                        Elems(vec'[x]) = Elems(push_back(vec[x], v).v)]_vars

\* an insert at the front that shifted N - 1 elements
C9_Witness ==
    /\ op.name = "insert"
    /\ status = "ok"
    /\ op.x = 0
    /\ ret = 0
    /\ vec[op.self].m_size = N
    /\ vec[op.self].m_buffer[0] # vec[op.self].m_buffer[1]

\* C10: erase(begin + i) with i in 0..m_size - 1 leaves s[0..i) ++
\* s[i+1..m_size) in order, takes 1 from m_size, leaves the old last slot
\* destroyed and returns the iterator to index i.
C10_EraseResult ==
    [][LET x == op'.self
           s == Elems(vec[x])
           i == op'.x
       IN  (/\ Calls({"erase"})
            /\ vec[x].m_size > 0
            /\ i \in 0..(vec[x].m_size - 1))
              => /\ status' = "ok"
                 /\ Elems(vec'[x]) = SubSeq(s, 1, i) \o SubSeq(s, i + 2, Len(s))
                 /\ vec'[x].m_size = vec[x].m_size - 1
                 /\ vec'[x].m_buffer[vec[x].m_size - 1] = NoObj
                 /\ ret' = i]_vars

\* an erase at the front of a full vector
C10_Witness ==
    /\ op.name = "erase"
    /\ status = "ok"
    /\ op.x = 0
    /\ ret = 0
    /\ vec[op.self].m_size = N - 1
    /\ vec[op.self].m_buffer[0] # vec[op.self].m_buffer[1]

\* C11: erase(begin + f, begin + l) with 0 <= f <= l <= m_size leaves
\* s[0..f) ++ s[l..m_size), sets m_size to m_size - (l - f), destroys exactly
\* the l - f trailing slots and returns the iterator to index f; when f = l
\* nothing is moved or destroyed and m_size is unchanged.
C11_EraseRangeResult ==
    [][LET x == op'.self
           s == Elems(vec[x])
           f == op'.x
           l == op'.y
           n == vec[x].m_size
       IN  (/\ Calls({"erase_range"})
            /\ 0 <= f /\ f <= l /\ l <= n)
              => /\ status' = "ok"
                 /\ Elems(vec'[x]) = SubSeq(s, 1, f) \o SubSeq(s, l + 1, n)
                 /\ vec'[x].m_size = n - (l - f)
                 /\ \A i \in Slots :
                       /\ (i >= n - (l - f) /\ i < n) => vec'[x].m_buffer[i] = NoObj
                       /\ (i >= n) => vec'[x].m_buffer[i] = vec[x].m_buffer[i]
                 /\ ret' = f
                 /\ (f = l) => vec' = vec]_vars

\* a range of N - 1 elements erased from the front of a full vector
C11_Witness ==
    /\ op.name = "erase_range"
    /\ status = "ok"
    /\ op.x = 0
    /\ op.y = N - 1
    /\ ret = 0
    /\ vec[op.self].m_size = 1
    /\ vec[op.self].m_buffer[0] \in Values
    /\ \A i \in 1..(N - 1) : vec[op.self].m_buffer[i] = NoObj

C17_CopyIndependent ==
    [][/\ Calls({"static_vector_copy"}) =>
              LET x == op'.self
                  y == Other(x)
              IN  /\ vec'[x].alive
                  /\ Elems(vec'[x]) = Elems(vec[y])
                  /\ vec'[y] = vec[y]
       /\ Calls({"push_back", "emplace_back", "pop_back", "emplace", "insert",
                 "erase", "erase_range", "clear", "resize", "resize_value",
                 "at", "subscript", "front", "back", "destructor"}) =>
              vec'[Other(op'.self)] = vec[Other(op'.self)]]_vars

\* a copy of a full vector that holds two different values
C17_Witness ==
    /\ op.name = "static_vector_copy"
    /\ status = "ok"
    /\ vec[op.self].m_size = N
    /\ Elems(vec[op.self]) = Elems(vec[Other(op.self)])
    /\ vec[op.self].m_buffer[0] # vec[op.self].m_buffer[N - 1]

\* C19: the move constructor leaves in the destination the sequence and the
\* length its source had; the source ends with m_size 0 and no constructed
\* object in any slot.
C19_MoveConstruct ==
    [][Calls({"static_vector_move"}) =>
          LET x == op'.self
              y == Other(x)
          IN  /\ vec'[x].alive
              /\ Elems(vec'[x]) = Elems(vec[y])
              /\ vec'[x].m_size = vec[y].m_size
              /\ vec'[y].m_size = 0
              /\ \A i \in Slots : vec'[y].m_buffer[i] = NoObj]_vars

\* C20: after a = b the sequence of a is that of b, b is unchanged, and the
\* elements a held before have been destroyed: a holds no constructed object
\* at an index >= its new length.
C20_CopyAssign ==
    [][Calls({"assign_copy"}) =>
          LET x == op'.self
              y == Other(x)
          IN  /\ Elems(vec'[x]) = Elems(vec[y])
              /\ vec'[y] = vec[y]
              /\ \A i \in Slots :
                    i >= vec'[x].m_size => vec'[x].m_buffer[i] = NoObj]_vars

\* ------------------------------------------------ throwing element copies
\* A client whose element type may throw when constructed or copied: it
\* fills a, destroys b and copy-constructs it again.
NextThrow ==
    \/ PushBack
    \/ PushBackThrows
    \/ EmplaceBack
    \/ EmplaceBackThrows
    \/ PopBack
    \/ Destruct
    \/ Construct
    \/ ConstructCopy
    \/ ConstructCopyThrows
    \/ Return

SpecThrow == Init /\ [][NextThrow]_vars

\* C18: when the copy of element k throws during copy construction, the k
\* elements already constructed in the target have been destroyed when the
\* exception reaches the caller: no slot of the target holds a constructed
\* object.
C18_CopyUnwinds ==
    (status = "throw" /\ op.name = "static_vector_copy")
        => \A i \in Slots : vec[op.self].m_buffer[i] = NoObj

\* C27: when the construction of the new element throws in push_back or
\* emplace_back on an instance whose slots below m_size, and no others, hold
\* objects, the call leaves m_size and the slots as they were, and every slot
\* below m_size still holds an object.
C27_ConstructBeforeCount ==
    [][(Calls({"push_back", "emplace_back"}) /\ status' = "throw") =>
          LET v == vec[op'.self]
              w == vec'[op'.self]
          IN  (\A i \in Slots : Live(v, i) <=> i < v.m_size) =>
                 /\ w.m_size = v.m_size
                 /\ w.m_buffer = v.m_buffer
                 /\ \A i \in Slots : i < w.m_size => Live(w, i)]_vars

\* ------------------------------------------------ insert then erase
\* The history is empty: the scenario has not started.
Before == hist.log = <<>>

\* The calls of the history so far, oldest first.
Called == [k \in 1..Len(hist.log) |-> hist.log[k].call.name]

\* A client that brings a to some state, inserts a value at a position and
\* erases at the same position.
InitInverse == InitVec /\ hist = HistFrom({"insert"})

InverseErase ==
    /\ Called = <<"insert">>
    /\ hist.log[1].end = "ok"
    /\ Erase
    /\ op'.x = hist.log[1].call.x

NextInverse ==
    \/ Before /\ PushBack
    \/ Before /\ PopBack
    \/ Before /\ Swap
    \/ Before /\ Insert
    \/ InverseErase
    \/ Return

SpecInverse == InitInverse /\ [][NextInverse]_vars

\* C12: insert(begin + i, v) into a vector of fewer than N elements, i in
\* 0..m_size, succeeds, and erase(begin + i) right after it succeeds and
\* leaves the element sequence and the length the vector had before the
\* insert.
C12_InsertEraseInverse ==
    /\ (/\ Len(hist.log) >= 1
        /\ hist.log[1].before["a"].m_size < N
        /\ hist.log[1].call.x \in 0..hist.log[1].before["a"].m_size)
          => hist.log[1].end = "ok"
    /\ (Called = <<"insert", "erase">>)
          => /\ hist.log[2].end = "ok"
             /\ Elems(vec["a"]) = Elems(hist.log[1].before["a"])
             /\ vec["a"].m_size = hist.log[1].before["a"].m_size

\* an insert at the front of N - 1 differing elements, erased again
C12_Witness ==
    /\ Called = <<"insert", "erase">>
    /\ hist.log[1].call.x = 0
    /\ vec["a"].m_size = N - 1
    /\ vec["a"].m_buffer[0] # vec["a"].m_buffer[N - 2]
    /\ hist.log[1].call.arg.x # vec["a"].m_buffer[0]

\* ------------------------------------------------ pushes then pops
\* How many of the calls of the history so far were calls of name.
Count(name) == Cardinality({k \in DOMAIN Called : Called[k] = name})

\* Every call of the history so far returned normally.
AllOk == \A k \in DOMAIN hist.log : hist.log[k].end = "ok"

\* The values of the push_back calls of the history, oldest first, when the
\* history from call `from` on is push_back calls only.
Pushed(from) ==
    [k \in 1..(Len(hist.log) - from + 1) |-> hist.log[k + from - 1].call.arg.x]

\* A client that pushes k values onto an empty vector, then k times reads
\* back() and pops.
InitPushPop == InitVec /\ hist = HistFrom({"push_back"})

PushPopPush ==
    /\ Count("push_back") = Len(hist.log)
    /\ PushBack

PushPopBack ==
    /\ hist.log # <<>>
    /\ Called[Len(Called)] \in {"push_back", "pop_back"}
    /\ Count("pop_back") < Count("push_back")
    /\ Back

PushPopPop ==
    /\ hist.log # <<>>
    /\ Called[Len(Called)] = "back"
    /\ PopBack

NextPushPop ==
    \/ PushPopPush
    \/ PushPopBack
    \/ PushPopPop
    \/ Return

SpecPushPop == InitPushPop /\ [][NextPushPop]_vars

\* C13: from an empty vector, j <= N push_back calls succeed and leave the
\* pushed values in push order; in the pops that follow, each back() read
\* just before a pop returns the value pushed last among those not yet
\* popped, and after as many pops as pushes the length is 0.
C13_PushPopRoundTrip ==
    LET pushes == Count("push_back")
        pops == Count("pop_back")
    IN  /\ (pushes = Len(hist.log) /\ pushes <= N)
              => /\ AllOk
                 /\ Elems(vec["a"]) = Pushed(1)
        /\ pushes <= N => AllOk
        /\ \A m \in DOMAIN hist.log :
              Called[m] = "back" =>
                 hist.log[m].ret =
                    hist.log[pushes - Cardinality({k \in 1..m : Called[k] = "pop_back"})].call.arg.x
        /\ (pushes <= N /\ pops = pushes) => vec["a"].m_size = 0

\* N pushes of differing values and N pops
C13_Witness ==
    /\ Count("push_back") = N
    /\ Count("pop_back") = N
    /\ hist.log[1].call.arg.x # hist.log[N].call.arg.x
    /\ status = "ok"

\* ------------------------------------------------ clear then refill
\* A client that brings a to a non-empty state (by push_back and pop_back,
\* and by a swap with b while b is empty), clears it and pushes N values.
InitRefill == InitVec /\ hist = HistFrom({"clear"})

RefillClear ==
    /\ Before
    /\ vec["a"].m_size > 0
    /\ Clear

RefillPush ==
    /\ hist.log # <<>>
    /\ Len(hist.log) <= N
    /\ PushBack

NextRefill ==
    \/ Before /\ PushBack
    \/ Before /\ PopBack
    \/ Before /\ vec["b"].m_size = 0 /\ Swap
    \/ RefillClear
    \/ RefillPush
    \/ Return

SpecRefill == InitRefill /\ [][NextRefill]_vars

\* C16: clear() on a non-empty vector destroys every element below the old
\* length and leaves length 0, and each of the N push_back calls after it
\* succeeds and leaves the values pushed since the clear in push order.
C16_ClearRefill ==
    /\ AllOk
    /\ (Called = <<"clear">>)
          => /\ vec["a"].m_size = 0
             /\ \A i \in Slots :
                   i < hist.log[1].before["a"].m_size
                      => vec["a"].m_buffer[i] = NoObj
    /\ Len(hist.log) >= 2 => Elems(vec["a"]) = Pushed(2)

\* a full vector, cleared and filled again with N differing values
C16_Witness ==
    /\ Len(hist.log) = N + 1
    /\ hist.log[1].before["a"].m_size = N
    /\ vec["a"].m_size = N
    /\ vec["a"].m_buffer[0] # vec["a"].m_buffer[N - 1]

\* ------------------------------------------------ swap and swap back
\* A client that fills a by push_back, builds b from a list, calls
\* x.swap(y) and then y.swap(x).
InitSwapTwice == InitVec /\ hist = HistFrom({"swap"})

SwapBack ==
    /\ Called = <<"swap">>
    /\ Swap
    /\ op'.self = Other(hist.log[1].call.self)

NextSwapTwice ==
    \/ Before /\ PushBack
    \/ Before /\ Destruct
    \/ Before /\ ConstructList
    \/ Before /\ Swap
    \/ SwapBack
    \/ Return

SpecSwapTwice == InitSwapTwice /\ [][NextSwapTwice]_vars

\* C14: x.swap(y) followed by y.swap(x) leaves both instances with the
\* element sequences and the lengths they had before the first swap.
C14_SwapSymmetry ==
    (Called = <<"swap", "swap">>)
        => /\ AllOk
           /\ \A x \in Inst :
                 /\ Elems(vec[x]) = Elems(hist.log[1].before[x])
                 /\ vec[x].m_size = hist.log[1].before[x].m_size

\* one side empty and the other holding N differing elements
C14_Witness ==
    /\ Called = <<"swap", "swap">>
    /\ \E x \in Inst :
          /\ hist.log[1].before[x].m_size = N
          /\ hist.log[1].before[Other(x)].m_size = 0
          /\ vec[x].m_buffer[0] # vec[x].m_buffer[N - 1]

\* ------------------------------------------------ comparison
\* What a comparison returns, and the slots it read: <<side, index>>.
Compared(result, read) == [result |-> result, read |-> read]

ReadBoth(i) == {<<"lhs", i>>, <<"rhs", i>>}

\* std::equal(first1, last1, first2): for (; first1 != last1; ++first1,
\* ++first2) if (!(*first1 == *first2)) return false; return true;
RECURSIVE std_equal(_, _, _, _, _)
std_equal(lhs, rhs, first1, last1, read) ==
    IF first1 = last1 THEN Compared(TRUE, read)
    ELSE IF ~(lhs.m_buffer[first1] = rhs.m_buffer[first1])
         THEN Compared(FALSE, read \cup ReadBoth(first1))
         ELSE std_equal(lhs, rhs, first1 + 1, last1, read \cup ReadBoth(first1))

\* operator== without the comparison of the sizes.
operator_eq_no_size_check(lhs, rhs) == std_equal(lhs, rhs, 0, size(lhs), {})

operator_eq(lhs, rhs) ==
    IF size(lhs) # size(rhs) THEN Compared(FALSE, {})
    ELSE std_equal(lhs, rhs, 0, size(lhs), {})

\* std::lexicographical_compare(first1, last1, first2, last2)
RECURSIVE lexicographical_compare(_, _, _, _, _, _)
lexicographical_compare(lhs, rhs, first, last1, last2, read) ==
    IF ~(first # last1 /\ first # last2)
    THEN Compared(first = last1 /\ first # last2, read)
    ELSE IF lhs.m_buffer[first] < rhs.m_buffer[first]
         THEN Compared(TRUE, read \cup ReadBoth(first))
         ELSE IF rhs.m_buffer[first] < lhs.m_buffer[first]
              THEN Compared(FALSE, read \cup ReadBoth(first))
              ELSE lexicographical_compare(lhs, rhs, first + 1, last1, last2,
                                           read \cup ReadBoth(first))

\* operator< of the builds before C++20
operator_lt(lhs, rhs) ==
    lexicographical_compare(lhs, rhs, 0, size(lhs), size(rhs), {})

\* std::lexicographical_compare_three_way: -1 is less, 0 is equal, 1 is
\* greater.
RECURSIVE lexicographical_compare_three_way(_, _, _, _, _, _)
lexicographical_compare_three_way(lhs, rhs, first, last1, last2, read) ==
    IF first = last1 \/ first = last2
    THEN Compared(IF first # last1 THEN 1 ELSE IF first # last2 THEN -1 ELSE 0,
                  read)
    ELSE IF lhs.m_buffer[first] # rhs.m_buffer[first]
         THEN Compared(IF lhs.m_buffer[first] < rhs.m_buffer[first] THEN -1 ELSE 1,
                       read \cup ReadBoth(first))
         ELSE lexicographical_compare_three_way(lhs, rhs, first + 1, last1, last2,
                                                read \cup ReadBoth(first))

\* operator<=> of the C++20 builds
operator_cmp(lhs, rhs) ==
    lexicographical_compare_three_way(lhs, rhs, 0, size(lhs), size(rhs), {})

\* x == y
Equal ==
    /\ Running
    /\ \E x \in Inst :
          /\ vec[x].alive
          /\ vec[Other(x)].alive
          /\ Finish(x, "operator_eq", 0, 0, NoArg,
                    Out(vec[x], operator_eq(vec[x], vec[Other(x)]), "ok"))

\* x < y before C++20
Less ==
    /\ Running
    /\ \E x \in Inst :
          /\ vec[x].alive
          /\ vec[Other(x)].alive
          /\ Finish(x, "operator_lt", 0, 0, NoArg,
                    Out(vec[x], operator_lt(vec[x], vec[Other(x)]), "ok"))

\* x <=> y in C++20
ThreeWay ==
    /\ Running
    /\ \E x \in Inst :
          /\ vec[x].alive
          /\ vec[Other(x)].alive
          /\ Finish(x, "operator_cmp", 0, 0, NoArg,
                    Out(vec[x], operator_cmp(vec[x], vec[Other(x)]), "ok"))

\* A client that fills a, builds b from lists, swaps them and compares them.
NextCompare ==
    \/ PushBack
    \/ PopBack
    \/ Destruct
    \/ ConstructList
    \/ Swap
    \/ Equal
    \/ Less
    \/ ThreeWay
    \/ Return

SpecCompare == Init /\ [][NextCompare]_vars

\* s is before t in the lexicographic order, a proper prefix being smaller.
LexLess(s, t) ==
    \E k \in 1..(Len(s) + 1) :
        /\ k <= Len(t)
        /\ SubSeq(s, 1, k - 1) = SubSeq(t, 1, k - 1)
        /\ k <= Len(s) => s[k] < t[k]

\* C21: x == y is true exactly when the lengths are equal and the elements
\* are equal at every index below the length; x < y (x <=> y in C++20) is
\* the lexicographic order of the elements below the lengths, a proper
\* prefix being smaller; a comparison changes neither operand and reads no
\* slot at an index >= the length of its operand.
C21_Comparison ==
    [][Calls({"operator_eq", "operator_lt", "operator_cmp"}) =>
          LET x == op'.self
              y == Other(x)
              s == Elems(vec[x])
              t == Elems(vec[y])
              r == ret'.result
          IN  /\ status' = "ok"
              /\ vec' = vec
              /\ op'.name = "operator_eq" => (r <=> s = t)
              /\ op'.name = "operator_lt" => (r <=> LexLess(s, t))
              /\ op'.name = "operator_cmp" =>
                    /\ r = -1 <=> LexLess(s, t)
                    /\ r = 0 <=> s = t
                    /\ r = 1 <=> LexLess(t, s)
              /\ \A p \in ret'.read :
                    p[2] < (IF p[1] = "lhs" THEN vec[x] ELSE vec[y]).m_size]_vars

\* a one-element vector with a leftover object above its length is less than
\* the two-element vector it is a prefix of
C21_Witness ==
    /\ op.name = "operator_lt"
    /\ ret.result
    /\ vec[op.self].m_size = 1
    /\ vec[Other(op.self)].m_size = 2
    /\ vec[op.self].m_buffer[0] = vec[Other(op.self)].m_buffer[0]
    /\ Live(vec[op.self], 1)

\* ------------------------------------------------ flat_map calls
\* An argument that is a list of entries.
ListArg(list) == [list |-> list]

\* An operation on flat_map x ends: its container is c afterwards.
FlatFinish(x, name, i, j, arg, alive, o) ==
    /\ fmap' = [fmap EXCEPT ![x] = [alive |-> alive, m_container |-> o.v]]
    /\ op' = Op(name, x, i, j, arg)
    /\ ret' = o.ret
    /\ status' = o.end
    /\ UNCHANGED <<vec, hist, pcg>>

FlatConstruct ==
    /\ Running
    /\ \E x \in Primary :
          /\ ~fmap[x].alive
          /\ FlatFinish(x, "flat_map", 0, 0, NoArg, TRUE,
                        Out(flat_map_default.m_container, NoRet, "ok"))

FlatConstructList ==
    /\ Running
    /\ \E x \in Primary :
          /\ ~fmap[x].alive
          /\ \E list \in PairLists : \E c \in flat_map_list(list) :
                FlatFinish(x, "flat_map_list", Len(list), 0, ListArg(list), TRUE,
                           Out(c, NoRet, "ok"))

FlatConstructRange ==
    /\ Running
    /\ \E x \in Primary :
          /\ ~fmap[x].alive
          /\ \E list \in PairLists : \E c \in flat_map_list(list) :
                FlatFinish(x, "flat_map_range", Len(list), 0, ListArg(list), TRUE,
                           Out(c, NoRet, "ok"))

FlatDestruct ==
    /\ Running
    /\ \E x \in Primary :
          /\ fmap[x].alive
          /\ FlatFinish(x, "flat_map_destructor", 0, 0, NoArg, FALSE,
                        Out(NoFlatMap.m_container, NoRet, "ok"))

TryEmplace ==
    /\ Running
    /\ \E x \in Primary, key \in Keys, mapped \in Values :
          /\ fmap[x].alive
          /\ FlatFinish(x, "try_emplace", key, mapped, NoArg, TRUE,
                        try_emplace(fmap[x].m_container, key, mapped))

FlatEmplace ==
    /\ Running
    /\ \E x \in Primary, value \in Pairs :
          /\ fmap[x].alive
          /\ FlatFinish(x, "flat_map_emplace", value.first, value.second, NoArg,
                        TRUE, flat_map_emplace(fmap[x].m_container, value))

FlatInsert ==
    /\ Running
    /\ \E x \in Primary, value \in Pairs :
          /\ fmap[x].alive
          /\ FlatFinish(x, "flat_map_insert", value.first, value.second, NoArg,
                        TRUE, flat_map_insert(fmap[x].m_container, value))

FlatSubscript ==
    /\ Running
    /\ \E x \in Primary, key \in Keys :
          /\ fmap[x].alive
          /\ FlatFinish(x, "flat_map_subscript", key, DefaultValue, NoArg, TRUE,
                        flat_map_subscript(fmap[x].m_container, key))

FlatEraseKey ==
    /\ Running
    /\ \E x \in Primary, key \in Keys :
          /\ fmap[x].alive
          /\ FlatFinish(x, "flat_map_erase_key", key, 0, NoArg, TRUE,
                        flat_map_erase_key(fmap[x].m_container, key))

\* erase(pos); the caller passes an iterator to an entry.
FlatErase ==
    /\ Running
    /\ \E x \in Primary :
          /\ fmap[x].alive
          /\ \E pos \in 0..(Len(fmap[x].m_container) - 1) :
                FlatFinish(x, "flat_map_erase", pos, 0, NoArg, TRUE,
                           flat_map_erase(fmap[x].m_container, pos))

\* erase(begin, end); the caller passes a range of the container.
FlatEraseRange ==
    /\ Running
    /\ \E x \in Primary :
          /\ fmap[x].alive
          /\ \E first \in 0..Len(fmap[x].m_container) :
                \E last \in first..Len(fmap[x].m_container) :
                   FlatFinish(x, "flat_map_erase_range", first, last, NoArg, TRUE,
                              flat_map_erase_range(fmap[x].m_container, first, last))

\* The longest map a client swaps into the spare map.
MaxSwap == 1

\* swap(other), called on a map of at most MaxSwap entries.
FlatSwap ==
    /\ Running
    /\ \E x \in Primary :
          /\ fmap[x].alive
          /\ fmap[Other(x)].alive
          /\ Len(fmap[x].m_container) <= MaxSwap
          /\ LET o == flat_map_swap(fmap[x].m_container, fmap[Other(x)].m_container)
             IN  /\ fmap' = [fmap EXCEPT ![x].m_container = o.v,
                                         ![Other(x)].m_container = o.w]
                 /\ op' = Op("flat_map_swap", x, 0, 0, NoArg)
                 /\ ret' = o.ret
                 /\ status' = o.end
                 /\ UNCHANGED <<vec, hist, pcg>>

FlatClear ==
    /\ Running
    /\ \E x \in Primary :
          /\ fmap[x].alive
          /\ FlatFinish(x, "flat_map_clear", 0, 0, NoArg, TRUE,
                        flat_map_clear(fmap[x].m_container))

FlatFind ==
    /\ Running
    /\ \E x \in Primary, key \in Keys :
          /\ fmap[x].alive
          /\ FlatFinish(x, "flat_map_find", key, 0, NoArg, TRUE,
                        flat_map_find(fmap[x].m_container, key))

FlatContains ==
    /\ Running
    /\ \E x \in Primary, key \in Keys :
          /\ fmap[x].alive
          /\ FlatFinish(x, "flat_map_contains", key, 0, NoArg, TRUE,
                        flat_map_contains(fmap[x].m_container, key))

NextFlatMap ==
    \/ FlatConstruct
    \/ FlatConstructList
    \/ FlatConstructRange
    \/ FlatDestruct
    \/ TryEmplace
    \/ FlatEmplace
    \/ FlatInsert
    \/ FlatSubscript
    \/ FlatEraseKey
    \/ Return

SpecFlatMap == Init /\ [][NextFlatMap]_vars

\* The entries of a container, and the indices of those with a key
\* equivalent to key.
Entries(c) == {c[i] : i \in DOMAIN c}

Holding(c, key) == {i \in DOMAIN c : equal_op(c[i].first, key)}

\* C22: try_emplace, emplace, insert and operator[] with a key equivalent to
\* one already present leave the container as it is and return the iterator
\* to the existing entry (and false in the pair); with an absent key they add
\* exactly the entry (key, value) and return its iterator (and true).
C22_FirstWriteWins ==
    [][Calls({"try_emplace", "flat_map_emplace", "flat_map_insert",
              "flat_map_subscript"}) =>
          LET c == fmap[op'.self].m_container
              d == fmap'[op'.self].m_container
              key == op'.x
              it == IF op'.name = "flat_map_subscript" THEN ret' ELSE ret'.first
              paired == op'.name # "flat_map_subscript"
          IN  /\ status' = "ok"
              /\ Holding(c, key) # {} =>
                    /\ d = c
                    /\ it + 1 \in Holding(c, key)
                    /\ paired => ret'.second = FALSE
              /\ Holding(c, key) = {} =>
                    /\ Len(d) = Len(c) + 1
                    /\ Entries(d) = Entries(c) \cup {value_type(key, op'.y)}
                    /\ Deref(d, it) = value_type(key, op'.y)
                    /\ paired => ret'.second = TRUE]_vars

\* an insert of a present key with another value, refused
C22_Witness ==
    /\ op.name = "flat_map_insert"
    /\ ret.second = FALSE
    /\ Len(fmap[op.self].m_container) = MaxKey + 1
    /\ Deref(fmap[op.self].m_container, ret.first).second # op.y

\* C23: a flat_map constructed from a list or a range holds exactly one
\* entry for every distinct key of the input, and each entry is one of the
\* entries of the input.
C23_BulkRemovesDuplicates ==
    [][Calls({"flat_map_list", "flat_map_range"}) =>
          LET list == op'.arg.list
              d == fmap'[op'.self].m_container
          IN  /\ status' = "ok"
              /\ {d[i].first : i \in DOMAIN d} = {list[i].first : i \in DOMAIN list}
              /\ Len(d) = Cardinality({list[i].first : i \in DOMAIN list})
              /\ Entries(d) \subseteq Entries(list)]_vars

\* a list with two entries of one key and different values, of which the
\* later one stays
C23_Witness ==
    /\ op.name = "flat_map_list"
    /\ Len(op.arg.list) = MaxKey + 1
    /\ op.arg.list[1].first = op.arg.list[2].first
    /\ op.arg.list[1].second # op.arg.list[2].second
    /\ Len(fmap[op.self].m_container) = MaxKey
    /\ op.arg.list[2] \in Entries(fmap[op.self].m_container)

\* ------------------------------------------------ flat_map ordering
\* A client that uses every operation of a and swaps it with b; it builds a
\* from a list or a range while b is still empty.
NextFlatOrder ==
    \/ FlatConstruct
    \/ fmap["b"].m_container = <<>> /\ FlatConstructList
    \/ fmap["b"].m_container = <<>> /\ FlatConstructRange
    \/ FlatDestruct
    \/ TryEmplace
    \/ FlatEmplace
    \/ FlatInsert
    \/ FlatSubscript
    \/ FlatErase
    \/ FlatEraseRange
    \/ FlatEraseKey
    \/ FlatSwap
    \/ FlatClear
    \/ FlatFind
    \/ FlatContains
    \/ Return

SpecFlatOrder == Init /\ [][NextFlatOrder]_vars

\* The keys of a container.
KeysOf(c) == {c[i].first : i \in DOMAIN c}

\* The keys are strictly increasing under Compare.
Increasing(c) ==
    \A i \in 1..(Len(c) - 1) : key_compare(c[i].first, c[i + 1].first)

\* C31: after every call the keys of each flat_map are strictly increasing.
\* The keys present are those of the list or range given to the constructor
\* and those inserted since (insert, emplace, try_emplace, operator[]), less
\* those erased since (by key, position or range, or clear); swap exchanges
\* the two maps.  find(k) returns the iterator to the entry of k and
\* contains(k) true exactly when k is present; erase(k) returns 1 and removes
\* the entry of k exactly when k is present, and otherwise returns 0 and
\* leaves the map as it is.
C31_Ordering ==
    [][op = Idle =>
          LET x == op'.self
              c == fmap[x].m_container
              d == fmap'[x].m_container
              key == op'.x
              name == op'.name
          IN  /\ status' = "ok"
              /\ \A y \in Inst : Increasing(fmap'[y].m_container)
              /\ name \in {"flat_map_list", "flat_map_range"} =>
                    KeysOf(d) = KeysOf(op'.arg.list)
              /\ name \in {"flat_map", "flat_map_destructor", "flat_map_clear"} =>
                    d = <<>>
              /\ name \in {"try_emplace", "flat_map_emplace", "flat_map_insert",
                           "flat_map_subscript"} =>
                    KeysOf(d) = KeysOf(c) \cup {key}
              /\ name = "flat_map_erase" =>
                    /\ KeysOf(d) = KeysOf(c) \ {Deref(c, op'.x).first}
                    /\ Len(d) = Len(c) - 1
              /\ name = "flat_map_erase_range" =>
                    /\ KeysOf(d) = KeysOf(c) \
                          {Deref(c, it).first : it \in op'.x..(op'.y - 1)}
                    /\ Len(d) = Len(c) - (op'.y - op'.x)
              /\ name = "flat_map_swap" =>
                    /\ d = fmap[Other(x)].m_container
                    /\ fmap'[Other(x)].m_container = c
              /\ name = "flat_map_find" =>
                    /\ d = c
                    /\ key \in KeysOf(c) =>
                          ret' < Len(c) /\ Deref(c, ret').first = key
                    /\ key \notin KeysOf(c) => ret' = Len(c)
              /\ name = "flat_map_contains" =>
                    /\ d = c
                    /\ ret' <=> key \in KeysOf(c)
              /\ name = "flat_map_erase_key" =>
                    /\ key \in KeysOf(c) =>
                          /\ ret' = 1
                          /\ KeysOf(d) = KeysOf(c) \ {key}
                          /\ Len(d) = Len(c) - 1
                          /\ Entries(d) \subseteq Entries(c)
                    /\ key \notin KeysOf(c) => ret' = 0 /\ d = c
              /\ name # "flat_map_swap" =>
                    fmap'[Other(x)] = fmap[Other(x)]]_vars

\* erase(k) of a key that is present, in a map that is full but for k after
\* a swap has given b entries
C31_Witness ==
    /\ op.name = "flat_map_erase_key"
    /\ ret = 1
    /\ Len(fmap["a"].m_container) = MaxKey
    /\ fmap["b"].m_container # <<>>

\* ------------------------------------------------ pcg32 calls
\* The seeds the client uses: small ones, the largest one, and the one after
\* which the first draw is 0x7FFFFFFF.
Seeds ==
    {WordOf(0, Bits64), WordOf(1, Bits64), WordOf(42, Bits64),
     Not(Zero(Bits64)), Hex(<<0, 14, 10, 7, 6, 10, 14, 9, 9, 4, 13, 5, 7, 9, 13, 6>>)}

\* What a dk_pcg32 on the stack holds before it is seeded.
Indeterminate == {Zero(Bits64), Hex(<<13, 14, 10, 13, 11, 14, 14, 15, 0, 11, 10, 13, 15, 0, 0, 13>>)}

\* The intervals [min, max) asked of dk_pcg32_get_range_u32, min < max:
\* small ones, widths of 2^31 + 1 and 2^31, and the widest.
RangesU32 ==
    {<<WordOf(0, Bits32), WordOf(1, Bits32)>>,
     <<WordOf(0, Bits32), WordOf(6, Bits32)>>,
     <<WordOf(5, Bits32), WordOf(10, Bits32)>>,
     <<WordOf(3, Bits32), Add(IntMin, WordOf(4, Bits32))>>,
     <<WordOf(0, Bits32), IntMin>>,
     <<WordOf(0, Bits32), Not(Zero(Bits32))>>}

\* The int32_t of a number -2^31 < n < 2^31.
IntOf(n) == IF n < 0 THEN Neg(WordOf(-n, Bits32)) ELSE WordOf(n, Bits32)

\* The intervals asked of dk_pcg32_get_range_i32, min <= max.
RangesI32 ==
    {<<IntOf(0), IntOf(5)>>, <<IntOf(5), IntOf(10)>>, <<IntOf(-5), IntOf(5)>>,
     <<IntOf(-5), IntOf(-1)>>, <<IntOf(3), IntOf(3)>>, <<IntOf(-2), IntOf(-2)>>,
     <<IntMin, IntOf(1)>>}

SeedArg(seed) == [seed |-> seed]
RangeArg(min, max) == [min |-> min, max |-> max]

\* A call on the generator ends.
PcgFinish(name, arg, steps, o) ==
    /\ pcg' = dk_pcg32(o.state, steps + Len(o.draws))
    /\ op' = Op(name, "a", 0, 0, arg)
    /\ ret' = [value |-> o.ret, draws |-> o.draws]
    /\ status' = o.end
    /\ UNCHANGED <<vec, hist, fmap>>

PcgSeed ==
    /\ Running
    /\ \E seed \in Seeds :
          PcgFinish("dk_pcg32_seed", SeedArg(seed), 0,
                    dk_pcg32_seed(pcg.state, seed))

\* The client draws from a seeded generator, MaxDraws times at most.
Drawing == Running /\ pcg.seeded /\ pcg.steps < MaxDraws

PcgGetU32 ==
    /\ Drawing
    /\ PcgFinish("dk_pcg32_get_u32", NoArg, pcg.steps,
                 dk_pcg32_get_u32(pcg.state))

PcgGetBool ==
    /\ Drawing
    /\ PcgFinish("dk_pcg32_get_bool", NoArg, pcg.steps,
                 dk_pcg32_get_bool(pcg.state))

PcgGetRangeU32 ==
    /\ Drawing
    /\ \E r \in RangesU32 :
          \E o \in dk_pcg32_get_range_u32(pcg.state, r[1], r[2]) :
             PcgFinish("dk_pcg32_get_range_u32", RangeArg(r[1], r[2]),
                       pcg.steps, o)

PcgGetRangeI32 ==
    /\ Drawing
    /\ \E r \in RangesI32 :
          \E o \in dk_pcg32_get_range_i32(pcg.state, r[1], r[2]) :
             PcgFinish("dk_pcg32_get_range_i32", RangeArg(r[1], r[2]),
                       pcg.steps, o)

InitPcg ==
    /\ vec = [x \in Inst |-> static_vector_default]
    /\ op = Idle
    /\ ret = NoRet
    /\ status = "ok"
    /\ hist = NoHist
    /\ fmap = [x \in Inst |-> flat_map_default]
    /\ pcg \in {dk_pcg32_unseeded(state) : state \in Indeterminate}

NextPcg ==
    \/ PcgSeed
    \/ PcgGetU32
    \/ PcgGetBool
    \/ PcgGetRangeU32
    \/ PcgGetRangeI32
    \/ Return

SpecPcg == InitPcg /\ [][NextPcg]_vars

\* ((INC + seed) * MUL + INC) mod 2^64
Seeded(seed) ==
    Add(Mul(Add(DK_PCG32_INC, seed), DK_PCG32_MUL), DK_PCG32_INC)

\* C24: dk_pcg32_seed leaves the state ((INC + seed) * MUL + INC) mod 2^64
\* whatever the state was before, and no other seed leaves that state.
C24_Seeding ==
    [][Calls({"dk_pcg32_seed"}) =>
          /\ status' = "ok"
          /\ pcg'.state = Seeded(op'.arg.seed)
          /\ \A other \in Seeds \ {op'.arg.seed} :
                Seeded(other) # pcg'.state]_vars

\* the generator seeded again, with the largest seed, after draws
C24_Witness ==
    /\ op.name = "dk_pcg32_seed"
    /\ op.arg.seed = Not(Zero(Bits64))
    /\ \E first \in Seeds \ {op.arg.seed} :
          pcg.state # Seeded(first)

\* (2^32 - bounds) mod bounds, which is 2^32 mod bounds, from the remainder
\* of 2^32 - 1
Threshold(bounds) ==
    Mod(Add(Mod(Not(Zero(Bits32)), bounds), WordOf(1, Bits32)), bounds)

\* 2^32 - threshold, the number of draws in [threshold, 2^32), is a multiple
\* of bounds.
AcceptedInWholeRounds(threshold, bounds) ==
    IF threshold = Zero(Bits32)
    THEN Add(Mod(Not(Zero(Bits32)), bounds), WordOf(1, Bits32)) = bounds
    ELSE Mod(Neg(threshold), bounds) = Zero(Bits32)

\* C25: for min < max, dk_pcg32_get_range_u32 returns min + r mod (max -
\* min), a value in [min, max), for the first raw draw r with r >= (2^32 -
\* (max - min)) mod (max - min), having rejected every draw below that
\* threshold; the accepted draws [threshold, 2^32) are a multiple of max -
\* min in number, so every value has as many of them.
C25_UnbiasedRange ==
    [][(Calls({"dk_pcg32_get_range_u32"}) /\ status' = "ok") =>
          LET min == op'.arg.min
              max == op'.arg.max
              bounds == Sub(max, min)
              threshold == Threshold(bounds)
              draws == ret'.draws
          IN  /\ ~Lt(ret'.value, min)
              /\ Lt(ret'.value, max)
              /\ draws # <<>>
              /\ \A k \in 1..(Len(draws) - 1) : Lt(draws[k], threshold)
              /\ ~Lt(draws[Len(draws)], threshold)
              /\ ret'.value = Add(min, Mod(draws[Len(draws)], bounds))
              /\ Lt(threshold, bounds)
              /\ AcceptedInWholeRounds(threshold, bounds)
              /\ pcg'.steps = pcg.steps + Len(draws)]_vars

\* a draw below the threshold rejected, the next one accepted
C25_Witness ==
    /\ op.name = "dk_pcg32_get_range_u32"
    /\ status = "ok"
    /\ Len(ret.draws) >= 2
    /\ Lt(ret.draws[1], Threshold(Sub(op.arg.max, op.arg.min)))

\* C26: for min < max, dk_pcg32_get_range_i32 returns a value v with min <=
\* v < max; for min = max it returns min and makes no draw.
C26_SignedRange ==
    (op.name = "dk_pcg32_get_range_i32" /\ status = "ok") =>
        /\ SLt(op.arg.min, op.arg.max) =>
              /\ ~SLt(ret.value, op.arg.min)
              /\ SLt(ret.value, op.arg.max)
        /\ op.arg.min = op.arg.max =>
              /\ ret.value = op.arg.min
              /\ ret.draws = <<>>

\* The XSH-RR output of a state: x = (uint32_t)((s ^ (s >> 18)) >> 27)
\* rotated right by rot = s >> 59.
XshRr(state) ==
    LET x == Trunc(Shr(Xor(state, Shr(state, 18)), 27), Bits32)
        rot == ToNat(Shr(state, 59))
    IN  Or(Shr(x, rot), Shl(x, (Bits32 - rot) % Bits32))

\* C29: dk_pcg32_get_u32 returns the XSH-RR output of the state s it finds,
\* ((x >> rot) | (x << ((32 - rot) mod 32))) mod 2^32, and leaves the state
\* (s * MUL + INC) mod 2^64.
C29_OutputIsXshRr ==
    [][Calls({"dk_pcg32_get_u32"}) =>
          /\ ret'.value = XshRr(pcg.state)
          /\ pcg'.state = Add(Mul(pcg.state, DK_PCG32_MUL), DK_PCG32_INC)]_vars

\* C30: dk_pcg32_get_bool returns true for the 2^31 draws of the lower half
\* of the 32-bit range (those below 2^31) and false for the 2^31 others, and
\* advances the state by one step.
C30_BoolSplitsInHalf ==
    [][Calls({"dk_pcg32_get_bool"}) =>
          /\ ret'.value <=> Lt(ret'.draws[1], IntMin)
          /\ Len(ret'.draws) = 1
          /\ pcg'.state = Advance(pcg.state)
          /\ pcg'.steps = pcg.steps + 1]_vars

\* ------------------------------------------------ emplace step by step
\* A client that fills a, builds b from lists, swaps them and emplaces into
\* a; emplace runs statement by statement.
NextShift ==
    \/ PushBack
    \/ PopBack
    \/ Destruct
    \/ ConstructList
    \/ Swap
    \/ EmplaceEnter
    \/ EmplaceMoveLast
    \/ EmplaceShift
    \/ EmplaceAssign
    \/ EmplaceAtEnd
    \/ EmplaceCount
    \/ Return

SpecShift == Init /\ [][NextShift]_vars

\* The slot holds a constructed object, moved-from or not.
Constructed(buf, i) == buf[i] # NoObj

\* C28: every statement of emplace at an index below m_size is the next one
\* of the discipline.  From the entry: the last element is move-constructed
\* into slot m_size, which held no object, and the shift starts at slot
\* m_size - 1.  In the shift, at slot it > index: the element of slot it - 1
\* is move-assigned into slot it, whose object had been moved out, and the
\* shift goes on at it - 1.  At it = index: the new value is move-assigned
\* into slot index, whose object had been moved out.  Last: m_size is
\* incremented, once, with no slot written, and the call returns.
C28_ShiftDiscipline ==
    [][(Stepping /\ op.x < vec[op.self].m_size) =>
          LET v == vec[op.self]
              w == vec'[op.self]
              buf == v.m_buffer
              index == op.x
              it == op.y
          IN  /\ op.name = "emplace_enter" =>
                    /\ ~Constructed(buf, v.m_size)
                    /\ w.m_buffer = [buf EXCEPT ![v.m_size] = buf[v.m_size - 1],
                                                ![v.m_size - 1] = MovedFrom]
                    /\ w.m_size = v.m_size
                    /\ op'.name = "emplace_shift"
                    /\ op'.y = v.m_size - 1
              /\ (op.name = "emplace_shift" /\ it > index) =>
                    /\ buf[it] = MovedFrom
                    /\ w.m_buffer = [buf EXCEPT ![it] = buf[it - 1],
                                                ![it - 1] = MovedFrom]
                    /\ w.m_size = v.m_size
                    /\ op'.name = "emplace_shift"
                    /\ op'.y = it - 1
              /\ (op.name = "emplace_shift" /\ ~(it > index)) =>
                    /\ it = index
                    /\ buf[index] = MovedFrom
                    /\ w.m_buffer = [buf EXCEPT ![index] = op.arg.x]
                    /\ w.m_size = v.m_size
                    /\ op'.name = "emplace_count"
              /\ op.name = "emplace_count" =>
                    /\ w.m_buffer = buf
                    /\ w.m_size = v.m_size + 1
                    /\ op'.name = "emplace"
                    /\ ret' = index
                    /\ status' = "ok"]_vars

\* ------------------------------------------------ insert of an own element
\* A client that fills a and inserts copies of elements of a into a.
NextElement ==
    \/ ConstructList
    \/ Destruct
    \/ PushBack
    \/ PopBack
    \/ Clear
    \/ InsertElement
    \/ Return

SpecElement == Init /\ [][NextElement]_vars

\* C32: insert(begin + i, s[j]), where the argument is a reference to element
\* j of the vector itself, the vector holds fewer than N elements and i and j
\* are below its length, returns normally and leaves the elements before i,
\* then the value element j had before the call, then the elements from i on.
C32_InsertOwnElement ==
    [][(/\ Calls({"insert"})
        /\ op'.arg.ref
        /\ size(vec[op'.self]) < N
        /\ op'.x \in 0..(size(vec[op'.self]) - 1)
        /\ op'.arg.x \in 0..(size(vec[op'.self]) - 1))
          => LET s == Elems(vec[op'.self])
                 i == op'.x
                 j == op'.arg.x
             IN  /\ status' = "ok"
                 /\ Elems(vec'[op'.self]) =
                       SubSeq(s, 1, i) \o <<s[j + 1]>> \o SubSeq(s, i + 1, Len(s))]_vars
====
